---------------------------- MODULE Spec2Model ----------------------------
(***************************************************************************)
(* Price and promotion extraction of the MasterMarket scrapers             *)
(* (apify_dunnes_scraper.py, apify_tesco_scraper.py,                       *)
(* simple_local_to_prod.py).                                               *)
(*                                                                         *)
(* Representation.                                                         *)
(*  - Money and every other float of the source is an integer number of    *)
(*    hundredths: 5.99 is 599, the percentage 50.0 is 5000.                *)
(*  - None (and an absent dict key) is the value None below; the string    *)
(*    "none" stands for an absent promotion type.                          *)
(*  - A text is a sequence of tokens, case-folded, consecutive tokens      *)
(*    separated by one blank.  A token is [k, n]: k = "int" is a run of    *)
(*    digits of value n, k = "dec" is a number d+.dd of n hundredths, any  *)
(*    other k is that literal piece of text (n = 0).  A regular            *)
(*    expression of the source is an operator on token sequences that      *)
(*    matches what the expression matches on the text the tokens spell.    *)
(***************************************************************************)
EXTENDS Integers, Sequences, FiniteSets, TLC

\* prog: the program that runs (one scraper object per run).
\* pc: "idle" between products, "done" when a product has been processed.
\* op, inp, rec: the operation last run, its input and the record it produced.
\* last_html: the scraper object's _last_html_content.
\* dry_run: the dry_run argument the Apify scraper was constructed with.
\* env: what the operation last run met outside the program (the url and sku
\*      of the result item, the answers of the MasterMarket API it consumed).
\* net: the requests the operation last run sent to the MasterMarket API and
\*      what upload_price and update_scraping_status returned.
\* ret: the value returned by the price extractor last called.
\* stats, processed: the counters of self.stats and the number of result items the
\*      loop of run() has processed.
\* normalized: the string returned by normalize_text_encoding last called.
VARIABLES prog, pc, op, inp, rec, last_html, dry_run, env, net, ret, stats,
          processed, normalized

vars ==
    <<prog, pc, op, inp, rec, last_html, dry_run, env, net, ret, stats,
      processed, normalized>>

None == -1

\* ---------------------------------------------------------------- bounds
\* Longest text, in phrases, given to a classifier.
MaxPhrases == 2
\* Most result items of one run.
MaxItems == 2
\* Longest string, in characters, given to normalize_text_encoding.
MaxChars == 3

\* ------------------------------------------------------ program constants
MinPrice == 1
MaxPrice == 100000
MaxPct == 9000
MaxAmount == 10000

\* ---------------------------------------------------------------- tokens
Tok(k, n) == [k |-> k, n |-> n]
W(k) == Tok(k, 0)
N(n) == Tok("int", n)
D(c) == Tok("dec", c)

\* P(n) is the pence form "<n>p".
P(n) == Tok("p", n)

IsNum(t) == t.k \in {"int", "dec"}
\* Tokens with a digit in them: [^\d]* cannot cross them.
HasDigit(t) == t.k \in {"int", "dec", "p"}
\* The digit run a token ends with, as (\d+) followed by a non-digit reads it.
TailDigits(t) == IF t.k = "dec" THEN t.n % 100 ELSE t.n
\* Python's truth value of an optional number: None and 0 are false.
Truthy(x) == x # None /\ x # 0
\* a or b
Or(a, b) == IF Truthy(a) THEN a ELSE b

Min(S) == CHOOSE i \in S : \A j \in S : i <= j
\* Index of the first token after position i that carries a digit, 0 if none.
NextDigit(t, i) ==
    LET S == {j \in (i + 1)..Len(t) : HasDigit(t[j])}
    IN IF S = {} THEN 0 ELSE Min(S)
\* (\d+(?:[.,]\d{2})?) read at the start of number token t, in hundredths
\* after the source's replace(',', '.') and the appended '.00'.
NumAsPrice(t) == IF t.k = "dec" THEN t.n ELSE t.n * 100

\* ------------------------------------------------------- text geometry
\* Characters of a token, and of the blank before it: "€" is written against
\* the number after it, a unit suffix and "%" against the number before.
Digits(n) == IF n < 10 THEN 1 ELSE IF n < 100 THEN 2 ELSE IF n < 1000 THEN 3
             ELSE IF n < 10000 THEN 4 ELSE 5
Width(t) == IF t.k = "int" THEN Digits(t.n)
            ELSE IF t.k = "dec" THEN Digits(t.n \div 100) + 3
            ELSE IF t.k = "p" THEN Digits(t.n) + 1
            ELSE Len(t.k)
Glued(a, b) == a.k \in {"€", "badge>"} \/ b.k \in {"/kg", "/100g", "/l", "%", "<"}
RECURSIVE StartOf(_, _)
\* Offset of the first character of token i.
StartOf(t, i) ==
    IF i = 1 THEN 0
    ELSE StartOf(t, i - 1) + Width(t[i - 1])
         + (IF Glued(t[i - 1], t[i]) THEN 0 ELSE 1)
EndOf(t, i) == StartOf(t, i) + Width(t[i])
\* Some token of kind in kinds lies wholly inside the characters [lo, hi).
KindWithin(t, kinds, lo, hi) ==
    \E j \in 1..Len(t) : t[j].k \in kinds /\ StartOf(t, j) >= lo /\ EndOf(t, j) <= hi
HasKind(t, kinds) == \E j \in 1..Len(t) : t[j].k \in kinds

RECURSIVE Flatten(_)
Flatten(ss) == IF ss = <<>> THEN <<>> ELSE Head(ss) \o Flatten(Tail(ss))

\* -------------------------------------------------------- price records
\* The dict extract_price_data returns; ok = FALSE is the return value None.
NoPromotion ==
    [original_price |-> None, promotion_type |-> "none",
     promotion_text |-> <<>>, promotion_discount_value |-> None]

NoRecord ==
    [ok |-> FALSE, price |-> None, original_price |-> None,
     promotion_type |-> "none", promotion_text |-> <<>>,
     promotion_discount_value |-> None]

\* A classifier step's outcome: hit = the step returned pd.
Hit(pd) == [hit |-> TRUE, pd |-> pd]
Miss == [hit |-> FALSE, pd |-> NoPromotion]

\* ================================================== apify_dunnes_scraper.py
\* text_to_search: the promotion text if there is one, else the page.
Dunnes_text_to_search(item) ==
    IF item.promotionText # <<>> THEN item.promotionText ELSE item.rawHtml

\* buy\s*(\d+)\s*for\s*[^\d]*(\d+(?:[.,]\d{2})?)  and the "any" form of it.
Dunnes_kw_x_for(t, kw) ==
    {i \in 1..(Len(t) - 2) :
        /\ t[i].k = kw /\ t[i + 1].k = "int" /\ t[i + 2].k = "for"
        /\ NextDigit(t, i + 2) # 0}
\* (\d+)\s*for\s*[^\d]*(\d+(?:[.,]\d{2})?)
Dunnes_x_for(t) ==
    {i \in 1..(Len(t) - 1) :
        IsNum(t[i]) /\ t[i + 1].k = "for" /\ NextDigit(t, i + 1) # 0}
\* buy\s*(\d+)\s*get\s*(\d+)\s*free
Dunnes_bogo(t) ==
    {i \in 1..(Len(t) - 4) :
        /\ t[i].k = "buy" /\ t[i + 1].k = "int" /\ t[i + 2].k = "get"
        /\ t[i + 3].k = "int" /\ t[i + 4].k = "free"}
\* (\d+)\s*for\s*(\d+)\s*\*
Dunnes_x_for_y(t) ==
    {i \in 1..(Len(t) - 3) :
        /\ IsNum(t[i]) /\ t[i + 1].k = "for" /\ t[i + 2].k = "int"
        /\ t[i + 3].k = "*"}

MultiBuy(text) ==
    [NoPromotion EXCEPT !.promotion_type = "multi_buy", !.promotion_text = text]

\* === 1. multi-buy: the first pattern of the list that matches returns.
Dunnes_multibuy(t) ==
    IF Dunnes_kw_x_for(t, "buy") # {} THEN
        LET i == Min(Dunnes_kw_x_for(t, "buy"))
        IN Hit(MultiBuy(<<W("buy"), N(t[i + 1].n), W("for"),
                          D(NumAsPrice(t[NextDigit(t, i + 2)]))>>))
    ELSE IF Dunnes_kw_x_for(t, "any") # {} THEN
        LET i == Min(Dunnes_kw_x_for(t, "any"))
        IN Hit(MultiBuy(<<W("any"), N(t[i + 1].n), W("for"),
                          D(NumAsPrice(t[NextDigit(t, i + 2)]))>>))
    ELSE IF Dunnes_x_for(t) # {} THEN
        LET i == Min(Dunnes_x_for(t))
        IN Hit(MultiBuy(<<N(TailDigits(t[i])), W("for"),
                          D(NumAsPrice(t[NextDigit(t, i + 1)]))>>))
    ELSE IF Dunnes_bogo(t) # {} THEN
        LET i == Min(Dunnes_bogo(t))
        IN Hit(MultiBuy(<<W("buy"), N(t[i + 1].n), W("get"), N(t[i + 3].n),
                          W("free")>>))
    ELSE IF Dunnes_x_for_y(t) # {} THEN
        LET i == Min(Dunnes_x_for_y(t))
        IN Hit(MultiBuy(<<W("buy"), N(TailDigits(t[i])), W("for"),
                          N(t[i + 2].n)>>))
    ELSE Miss

\* (\d+)\s*%\s*off   and   (\d+)\s*%\s*discount
Pct_n_pct_kw(t, kw) ==
    {i \in 1..(Len(t) - 2) :
        IsNum(t[i]) /\ t[i + 1].k = "%" /\ t[i + 2].k = kw}
\* save\s*(\d+)\s*%
Pct_save_n_pct(t) ==
    {i \in 1..(Len(t) - 2) :
        t[i].k = "save" /\ t[i + 1].k = "int" /\ t[i + 2].k = "%"}
\* half\s*price
HalfPriceToks == {"half price", "better than half price", "half price when you buy"}
Pct_half_price(t) == {i \in 1..Len(t) : t[i].k \in HalfPriceToks}

PercentageOff(pct) ==
    [NoPromotion EXCEPT !.promotion_type = "percentage_off",
                        !.promotion_text = <<N(pct), W("%"), W("off")>>,
                        !.promotion_discount_value = pct * 100]
HalfPrice ==
    [NoPromotion EXCEPT !.promotion_type = "percentage_off",
                        !.promotion_text = <<W("half price")>>,
                        !.promotion_discount_value = 5000]
\* A percentage check that accepts every positive percentage.
PctInRange_unbounded(pct) == 0 < pct
\* 0 < discount_pct <= 90
PctInRange(pct) == 0 < pct * 100 /\ pct * 100 <= MaxPct

\* The percentage captured by the i-th numeric pattern, None if it does not match.
Dunnes_pct_capture(t, p) ==
    IF p = 1 THEN (IF Pct_n_pct_kw(t, "off") = {} THEN None
                   ELSE TailDigits(t[Min(Pct_n_pct_kw(t, "off"))]))
    ELSE IF p = 2 THEN (IF Pct_save_n_pct(t) = {} THEN None
                        ELSE t[Min(Pct_save_n_pct(t)) + 1].n)
    ELSE (IF Pct_n_pct_kw(t, "discount") = {} THEN None
          ELSE TailDigits(t[Min(Pct_n_pct_kw(t, "discount"))]))

\* === 2. percentage: a numeric pattern out of range falls to the next pattern.
RECURSIVE Dunnes_percentage_from(_, _)
Dunnes_percentage_from(t, p) ==
    IF p = 4 THEN (IF Pct_half_price(t) # {} THEN Hit(HalfPrice) ELSE Miss)
    ELSE LET c == Dunnes_pct_capture(t, p)
         IN IF c # None /\ PctInRange(c) THEN Hit(PercentageOff(c))
            ELSE Dunnes_percentage_from(t, p + 1)
Dunnes_percentage(t) == Dunnes_percentage_from(t, 1)

\* kw\s*[^\d]*(\d+[.,]\d{2}): the first number after kw is a d+.dd one.
Kw_then_dec(t, kws) ==
    {i \in 1..Len(t) :
        /\ t[i].k \in kws /\ NextDigit(t, i) # 0
        /\ t[NextDigit(t, i)].k = "dec"}
Kw_dec_value(t, kws) ==
    IF Kw_then_dec(t, kws) = {} THEN None
    ELSE t[NextDigit(t, Min(Kw_then_dec(t, kws)))].n
\* [^\d](\d+[.,]\d{2})\s*off: a character precedes the number.
Dec_off(t) ==
    {i \in 2..(Len(t) - 1) : t[i].k = "dec" /\ t[i + 1].k = "off"}
Dec_off_value(t) == IF Dec_off(t) = {} THEN None ELSE t[Min(Dec_off(t))].n

FixedAmountOff(amount) ==
    [NoPromotion EXCEPT !.promotion_type = "fixed_amount_off",
                        !.promotion_text = <<W("save"), D(amount)>>,
                        !.promotion_discount_value = amount]
\* An amount check that accepts every positive amount.
AmountInRange_unbounded(a) == 0 < a
\* 0 < discount_amount < 100
AmountInRange(a) == 0 < a /\ a < MaxAmount

Dunnes_savings_capture(t, p) ==
    IF p = 1 THEN Kw_dec_value(t, {"save"})
    ELSE IF p = 2 THEN Dec_off_value(t)
    ELSE Kw_dec_value(t, {"saving"})

\* === 3. fixed amount: an amount out of range falls to the next pattern.
RECURSIVE Dunnes_savings_from(_, _)
Dunnes_savings_from(t, p) ==
    IF p > 3 THEN Miss
    ELSE LET c == Dunnes_savings_capture(t, p)
         IN IF c # None /\ AmountInRange(c) THEN Hit(FixedAmountOff(c))
            ELSE Dunnes_savings_from(t, p + 1)
Dunnes_savings(t) == Dunnes_savings_from(t, 1)

\* The temporary discount with its discount value left out.
TemporaryDiscount_no_value(original, discount) ==
    [NoPromotion EXCEPT !.original_price = original,
                        !.promotion_type = "temporary_discount",
                        !.promotion_text = <<W("was"), D(original)>>]

TemporaryDiscount(original, discount) ==
    [NoPromotion EXCEPT !.original_price = original,
                        !.promotion_type = "temporary_discount",
                        !.promotion_text = <<W("was"), D(original)>>,
                        !.promotion_discount_value = discount]

\* === 4. was/now from the actor's originalPrice / wasPrice fields.
Dunnes_was_fields(item, current_price) ==
    LET original_price == Or(item.originalPrice, item.wasPrice)
    IN IF Truthy(original_price) /\ Truthy(current_price)
          /\ original_price > current_price
       THEN Hit(TemporaryDiscount(original_price, original_price - current_price))
       ELSE Miss

Dunnes_was_capture(t, p) ==
    IF p = 1 THEN Kw_dec_value(t, {"was"}) ELSE Kw_dec_value(t, {"original price"})

\* === 4. was/now parsed from the text.
RECURSIVE Dunnes_was_from(_, _, _)
Dunnes_was_from(t, current_price, p) ==
    IF p > 2 THEN Miss
    ELSE LET c == Dunnes_was_capture(t, p)
         IN IF c # None /\ Truthy(current_price) /\ c > current_price
              THEN Hit(TemporaryDiscount(c, c - current_price))
            ELSE IF c # None /\ c > 0 /\ ~Truthy(current_price)
              THEN Hit(TemporaryDiscount(c, None))
            ELSE Dunnes_was_from(t, current_price, p + 1)
Dunnes_was_text(t, current_price) == Dunnes_was_from(t, current_price, 1)

\* The promotion fields the actor already extracted, passed through.
Dunnes_passthrough(item) ==
    [original_price |-> item.originalPrice,
     promotion_type |-> item.promotionType,
     promotion_text |-> item.promotionText,
     promotion_discount_value |-> item.promotionDiscountValue]

Dunnes_detect_promotion_data(item, current_price) ==
    LET t == Dunnes_text_to_search(item)
    IN IF item.promotionType # "none" THEN Dunnes_passthrough(item)
       ELSE IF Dunnes_multibuy(t).hit THEN Dunnes_multibuy(t).pd
       ELSE IF Dunnes_percentage(t).hit THEN Dunnes_percentage(t).pd
       ELSE IF Dunnes_savings(t).hit THEN Dunnes_savings(t).pd
       ELSE IF Dunnes_was_fields(item, current_price).hit
         THEN Dunnes_was_fields(item, current_price).pd
       ELSE IF Dunnes_was_text(t, current_price).hit
         THEN Dunnes_was_text(t, current_price).pd
       ELSE NoPromotion

\* (\d+[.,]\d{2}) searched in priceText.
First_dec(t) ==
    LET S == {i \in 1..Len(t) : t[i].k = "dec"}
    IN IF S = {} THEN None ELSE t[Min(S)].n

\* price < 0.01 or price > 1000 is rejected.
PriceInRange(price) == ~(price < MinPrice \/ price > MaxPrice)

\* The record built from an accepted price and the detected promotion.
Dunnes_result(price, pd) ==
    [ok |-> TRUE, price |-> price,
     original_price |->
        IF pd.promotion_type # "none" /\ Truthy(pd.original_price)
        THEN pd.original_price ELSE price,
     promotion_type |-> pd.promotion_type,
     promotion_text |-> IF pd.promotion_type # "none" THEN pd.promotion_text ELSE <<>>,
     promotion_discount_value |->
        IF pd.promotion_type # "none" /\ Truthy(pd.promotion_discount_value)
        THEN pd.promotion_discount_value ELSE None]

Dunnes_extract_price_data(item) ==
    LET price == IF Truthy(item.price) THEN item.price
                 ELSE IF item.priceText # <<>> THEN First_dec(item.priceText)
                 ELSE None
    IN IF ~Truthy(price) THEN NoRecord
       ELSE IF ~PriceInRange(price) THEN NoRecord
       ELSE Dunnes_result(price, Dunnes_detect_promotion_data(item, price))

\* =================================================== apify_tesco_scraper.py
\* (\d+(?:[.,]\d{2})?) read by float(): hundredths.
NumAsFloat(t) == IF t.k = "dec" THEN t.n ELSE t.n * 100

\* (?:any\s+)?(\d+)\s+for\s+[€£]?\s*(\d+(?:[.,]\d{2})?), ignoring case.
Tesco_multi_buy_match(t) ==
    {i \in 1..(Len(t) - 2) :
        /\ IsNum(t[i]) /\ t[i + 1].k = "for"
        /\ \/ HasDigit(t[i + 2])
           \/ t[i + 2].k = "€" /\ i + 3 <= Len(t) /\ HasDigit(t[i + 3])}

\* 'clubcard' occurs in the text.
ClubcardToks == {"clubcard", "clubcard price"}
HasClubcard(t) == \E i \in 1..Len(t) : t[i].k \in ClubcardToks

\* [€£]\s*(\d+(?:[.,]\d{2})?)
Tesco_currency_price(t) ==
    {i \in 1..(Len(t) - 1) : t[i].k = "€" /\ HasDigit(t[i + 1])}
\* ^(\d+)p\s
Tesco_pence_match(t) == Len(t) >= 2 /\ t[1].k = "p"

\* 'p ' in description.lower() or description.lower().endswith('p')
EndsWithP(t) == \E i \in 1..Len(t) : t[i].k \in {"p", "up"}

\* The Clubcard price read from the description, None when there is none.
Tesco_clubcard_from_description(description) ==
    LET raw == IF Tesco_currency_price(description) # {}
               THEN NumAsFloat(description[Min(Tesco_currency_price(description)) + 1])
               ELSE IF Tesco_pence_match(description) THEN description[1].n * 100
               ELSE None
    IN IF raw = None THEN None
       ELSE IF EndsWithP(description) /\ raw > 1000 THEN raw \div 100
       ELSE raw

Tesco_membership(regular_price, clubcard_price) ==
    [ok |-> TRUE, price |-> clubcard_price, original_price |-> regular_price,
     promotion_type |-> "membership_price",
     promotion_text |-> <<W("clubcard price")>>,
     promotion_discount_value |-> regular_price - clubcard_price]

\* 0.01 <= clubcard_price < regular_price
Tesco_clubcard_valid(clubcard_price, regular_price) ==
    MinPrice <= clubcard_price /\ clubcard_price < regular_price

Tesco_extract_price_data(item) ==
    LET regular_price == item.price
        result == [ok |-> TRUE, price |-> regular_price,
                   original_price |-> regular_price,
                   promotion_type |-> "none", promotion_text |-> <<>>,
                   promotion_discount_value |-> None]
        club == Tesco_clubcard_from_description(item.description)
        \* result after the promotion object has been looked at
        after_promotion ==
            IF (HasClubcard(item.terms) \/ HasClubcard(item.description))
               /\ club # None /\ Tesco_clubcard_valid(club, regular_price)
            THEN Tesco_membership(regular_price, club)
            ELSE result
        legacy == Or(item.clubcardPrice, item.promoPrice)
    IN IF ~Truthy(regular_price) THEN NoRecord
       ELSE IF ~PriceInRange(regular_price) THEN NoRecord
       ELSE IF Tesco_multi_buy_match(item.description) # {}
         THEN [result EXCEPT !.promotion_type = "multi_buy",
                             !.promotion_text = item.description]
       ELSE IF Truthy(legacy) /\ after_promotion.promotion_type = "none"
               /\ Tesco_clubcard_valid(legacy, regular_price)
         THEN Tesco_membership(regular_price, legacy)
       ELSE after_promotion

\* ================================================= simple_local_to_prod.py
\* ------------------------------------ detect_supervalu_promotion_data
\* promotion_data of the SuperValu classifier: real_rewards_price is the key
\* the Real Rewards step adds.
SV_NoPromotion ==
    [original_price |-> None, promotion_type |-> "none",
     promotion_text |-> <<>>, promotion_discount_value |-> None,
     real_rewards_price |-> None]

\* Pieces of text in which 'real rewards' occurs, and what follows it there.
RealRewardsToks ==
    {"real rewards price", "real rewards members will pay",
     "non-real rewards members will pay"}
WillPayToks == {"real rewards members will pay", "non-real rewards members will pay"}
RealRewardsTail(k) == IF k = "real rewards price" THEN 6 ELSE 17

\* Index of the first "€" after position i, 0 if none.
NextEuro(t, i) ==
    LET S == {j \in (i + 1)..Len(t) : t[j].k = "€"}
    IN IF S = {} THEN 0 ELSE Min(S)

\* Only\s*€\s*(\d+[.,]\d{2})\s*Real\s*Rewards\s*Price
SV_rr_only(t) ==
    {i \in 1..(Len(t) - 3) :
        /\ t[i].k = "only" /\ t[i + 1].k = "€" /\ t[i + 2].k = "dec"
        /\ t[i + 3].k = "real rewards price"}
\* real\s*rewards[^€]{0,30}€\s*(\d+[.,]\d{2})
SV_rr_gap(t) ==
    {i \in 1..Len(t) :
        /\ t[i].k \in RealRewardsToks
        /\ LET j == NextEuro(t, i)
           IN /\ j # 0 /\ j < Len(t) /\ t[j + 1].k = "dec"
              /\ RealRewardsTail(t[i].k) + StartOf(t, j) - EndOf(t, i) <= 30}
\* Real\s*Rewards\s*members\s*will\s*pay\s*€\s*(\d+[.,]\d{2})
SV_rr_will_pay(t) ==
    {i \in 1..(Len(t) - 2) :
        t[i].k \in WillPayToks /\ t[i + 1].k = "€" /\ t[i + 2].k = "dec"}
\* promotionBadgeComponent[^>]*>Only\s*€\s*(\d+[.,]\d{2})
SV_rr_badge(t) ==
    {i \in 1..(Len(t) - 3) :
        /\ t[i].k = "badge>" /\ t[i + 1].k = "only" /\ t[i + 2].k = "€"
        /\ t[i + 3].k = "dec"}

\* The Real Rewards price: the first pattern of the list that matches.
SV_real_rewards_price(t) ==
    IF SV_rr_only(t) # {} THEN t[Min(SV_rr_only(t)) + 2].n
    ELSE IF SV_rr_gap(t) # {} THEN t[NextEuro(t, Min(SV_rr_gap(t))) + 1].n
    ELSE IF SV_rr_will_pay(t) # {} THEN t[Min(SV_rr_will_pay(t)) + 2].n
    ELSE IF SV_rr_badge(t) # {} THEN t[Min(SV_rr_badge(t)) + 3].n
    ELSE None

\* kw\s*€\s*(\d+[.,]?\d*) with '.00' appended to a number without a point.
SV_kw_euro_num(t, kw) ==
    {i \in 1..(Len(t) - 2) :
        t[i].k = kw /\ t[i + 1].k = "€" /\ HasDigit(t[i + 2])}
\* tprInfo[^}]*markdown["\s:]*€\s*(\d+[.,]\d{2})
SV_tpr_markdown(t) ==
    {i \in 1..(Len(t) - 2) :
        t[i].k = "tprinfo markdown" /\ t[i + 1].k = "€" /\ t[i + 2].k = "dec"}

\* The normal (non-member) price: the first pattern of the list that matches.
SV_normal_price(t) ==
    IF SV_kw_euro_num(t, "non-real rewards members will pay") # {}
      THEN NumAsPrice(t[Min(SV_kw_euro_num(t, "non-real rewards members will pay")) + 2])
    ELSE IF SV_tpr_markdown(t) # {} THEN t[Min(SV_tpr_markdown(t)) + 2].n
    ELSE IF SV_kw_euro_num(t, "\"pricelabel\":\"only") # {}
      THEN NumAsPrice(t[Min(SV_kw_euro_num(t, "\"pricelabel\":\"only")) + 2])
    ELSE None

\* real\s*rewards?\s*price  |  data-testid="[^"]*loyalty[^"]*price
SV_basic(t) == HasKind(t, {"real rewards price", "real reward price", "loyalty-price"})

\* === 1. Real Rewards (membership pricing).
SV_step_real_rewards(t) ==
    LET real_rewards_price == SV_real_rewards_price(t)
        normal_price == SV_normal_price(t)
        text == <<W("only"), W("€"), D(real_rewards_price), W("real rewards price")>>
    IN IF real_rewards_price # None THEN
          IF normal_price # None /\ normal_price > real_rewards_price
          THEN [SV_NoPromotion EXCEPT
                  !.promotion_type = "membership_price", !.promotion_text = text,
                  !.real_rewards_price = real_rewards_price,
                  !.original_price = normal_price,
                  !.promotion_discount_value = normal_price - real_rewards_price]
          ELSE [SV_NoPromotion EXCEPT
                  !.promotion_type = "membership_price", !.promotion_text = text,
                  !.real_rewards_price = real_rewards_price]
       ELSE IF SV_basic(t)
          THEN [SV_NoPromotion EXCEPT
                  !.promotion_type = "membership_price",
                  !.promotion_text = <<W("real rewards price")>>]
       ELSE SV_NoPromotion

\* (?!\s*/(?:kg|100g|g|ml|l|litre)) after the number at position d.
UnitSuffixToks == {"/kg", "/100g", "/g", "/ml", "/l", "/litre"}
NoUnitSuffix(t, d) == d = Len(t) \/ t[d + 1].k \notin UnitSuffixToks

\* was_price_patterns, in order; the two class="..." patterns need a currency
\* sign and allow text before it.
SV_WasKw ==
    <<"was", "original price", "rrp", "previously", "regular price",
      "class=\"was\">", "class=\"original\">", "<s>", "<del>">>
\* Position of the number a was-pattern starting at i has to find.
SV_was_dec(t, p, i) ==
    IF p \in {6, 7} THEN (IF NextEuro(t, i) = 0 THEN Len(t) + 1 ELSE NextEuro(t, i) + 1)
    ELSE IF i < Len(t) /\ t[i + 1].k = "€" THEN i + 2
    ELSE i + 1
SV_was_match(t, p) ==
    {i \in 1..Len(t) :
        /\ t[i].k = SV_WasKw[p]
        /\ LET d == SV_was_dec(t, p, i)
           IN d <= Len(t) /\ t[d].k = "dec" /\ NoUnitSuffix(t, d)}

PerUnitIndicators ==
    {"/kg", "/100g", "/ml", "/l", "/litre", "per kg", "per 100g", "per litre",
     "price per"}
\* An indicator within 30 characters of the match spanning tokens i..d.
SV_is_per_unit(t, i, d) ==
    LET total == EndOf(t, Len(t))
        lo == IF StartOf(t, i) - 30 > 0 THEN StartOf(t, i) - 30 ELSE 0
        hi == IF EndOf(t, d) + 30 < total THEN EndOf(t, d) + 30 ELSE total
    IN KindWithin(t, PerUnitIndicators, lo, hi)

\* === 2. "Was" price: a pattern whose price is not above the current one, or
\* sits next to a per-unit indicator, hands over to the next pattern.
RECURSIVE SV_was_from(_, _, _, _)
SV_was_from(t, current_price, pd, p) ==
    IF p > Len(SV_WasKw) THEN pd
    ELSE IF SV_was_match(t, p) = {} THEN SV_was_from(t, current_price, pd, p + 1)
    ELSE LET i == Min(SV_was_match(t, p))
             d == SV_was_dec(t, p, i)
             original_price == t[d].n
         IN IF original_price > 0
               /\ (current_price = None \/ original_price > current_price)
               /\ ~SV_is_per_unit(t, i, d)
            THEN [pd EXCEPT
                    !.original_price = original_price,
                    !.promotion_type =
                        IF pd.promotion_type = "none" THEN "temporary_discount" ELSE @,
                    !.promotion_text =
                        IF pd.promotion_type = "none"
                        THEN <<W("was"), W("€"), D(original_price)>> ELSE @,
                    !.promotion_discount_value =
                        IF Truthy(current_price) /\ original_price > current_price
                        THEN original_price - current_price ELSE @]
            ELSE SV_was_from(t, current_price, pd, p + 1)

\* A "was" step that runs whatever the Real Rewards step found.
SV_step_was_always(t, current_price, pd) == SV_was_from(t, current_price, pd, 1)
SV_step_was(t, current_price, pd) ==
    IF Truthy(pd.real_rewards_price) /\ Truthy(pd.original_price) THEN pd
    ELSE SV_was_from(t, current_price, pd, 1)

\* promotionBadgeComponent[^>]*>([^<]+)<  : the text of the first badge.
NextClose(t, i) ==
    LET S == {j \in (i + 1)..Len(t) : t[j].k = "<"}
    IN IF S = {} THEN 0 ELSE Min(S)
SV_badges(t) == {i \in 1..Len(t) : t[i].k = "badge>" /\ NextClose(t, i) > i + 1}
SV_badge_text(t) ==
    IF SV_badges(t) = {} THEN <<>>
    ELSE SubSeq(t, Min(SV_badges(t)) + 1, NextClose(t, Min(SV_badges(t))) - 1)
\* (\d+)\s*for\s*€?\s*(\d+(?:[.,]\d{2})?) matched at the start of the badge.
SV_badge_multi(b) ==
    /\ Len(b) >= 3 /\ b[1].k = "int" /\ b[2].k = "for"
    /\ \/ HasDigit(b[3])
       \/ b[3].k = "€" /\ Len(b) >= 4 /\ HasDigit(b[4])
SV_badge_price(b) == IF b[3].k = "€" THEN NumAsPrice(b[4]) ELSE NumAsPrice(b[3])

\* any\s*(\d+)\s*for\s*€\s*(\d+[.,]\d{2})
SV_any_for(t) ==
    {i \in 1..(Len(t) - 4) :
        /\ t[i].k = "any" /\ t[i + 1].k = "int" /\ t[i + 2].k = "for"
        /\ t[i + 3].k = "€" /\ t[i + 4].k = "dec"}
\* (\d+)\s*for\s*€\s*(\d+[.,]\d{2})
SV_n_for(t) ==
    {i \in 1..(Len(t) - 3) :
        /\ IsNum(t[i]) /\ t[i + 1].k = "for" /\ t[i + 2].k = "€"
        /\ t[i + 3].k = "dec"}
\* half\s*price\s*when\s*you\s*buy\s*(\d+)
SV_half_when(t) ==
    {i \in 1..(Len(t) - 1) :
        t[i].k = "half price when you buy" /\ t[i + 1].k \in {"int", "p"}}

\* The text the fallback multi-buy patterns produce, <<>> when none matches.
SV_multi_buy_text(t) ==
    IF SV_any_for(t) # {} THEN
        LET i == Min(SV_any_for(t))
        IN <<W("any"), N(t[i + 1].n), W("for"), W("€"), D(t[i + 4].n)>>
    ELSE IF SV_n_for(t) # {} THEN
        LET i == Min(SV_n_for(t))
        IN <<N(TailDigits(t[i])), W("for"), W("€"), D(t[i + 3].n)>>
    ELSE IF Dunnes_bogo(t) # {} THEN
        LET i == Min(Dunnes_bogo(t))
        IN <<W("buy"), N(t[i + 1].n), W("get"), N(t[i + 3].n), W("free")>>
    ELSE IF HasKind(t, {"bogof", "buy one get one", "buy one get one free"})
        THEN <<W("buy one get one free")>>
    ELSE IF SV_half_when(t) # {} THEN
        LET i == Min(SV_half_when(t))
        IN <<W("half price when you buy"), N(t[i + 1].n)>>
    ELSE <<>>

\* === 3. multi-buy: the badge first, then the patterns over the page.
SV_step_multi_buy(t, current_price, pd) ==
    LET b == SV_badge_text(t)
        after_badge ==
            IF SV_badge_multi(b) THEN
                LET qty == b[1].n
                    price == SV_badge_price(b)
                IN [pd EXCEPT
                      !.promotion_type = "multi_buy",
                      !.promotion_text = <<N(qty), W("for"), W("€"), D(price)>>,
                      !.promotion_discount_value =
                          IF Truthy(current_price) /\ qty > 0
                             /\ current_price * qty > price
                          THEN current_price * qty - price ELSE @]
            ELSE pd
    IN IF after_badge.promotion_type # "multi_buy" /\ SV_multi_buy_text(t) # <<>>
       THEN [after_badge EXCEPT !.promotion_type = "multi_buy",
                                !.promotion_text = SV_multi_buy_text(t)]
       ELSE after_badge

\* The number the p-th numeric percentage pattern captures, None without a match.
SV_pct_capture(t, p) ==
    IF p = 1 THEN (IF Pct_n_pct_kw(t, "off") = {} THEN None
                   ELSE TailDigits(t[Min(Pct_n_pct_kw(t, "off"))]))
    ELSE IF p = 2 THEN (IF Pct_save_n_pct(t) = {} THEN None
                        ELSE t[Min(Pct_save_n_pct(t)) + 1].n)
    ELSE (IF Pct_n_pct_kw(t, "discount") = {} THEN None
          ELSE TailDigits(t[Min(Pct_n_pct_kw(t, "discount"))]))

\* 'half price' in pattern, 'better than half' in pattern: the patterns are
\* r'half\s*price' and r'better\s*than\s*half\s*price', which hold neither
\* string, so a match of them reaches match.group(1), which raises IndexError.
SV_half_branch_taken == FALSE

\* === 4. percentage: the first numeric pattern that matches ends the loop,
\* whether or not its number is in range; it overwrites the kind set before.
RECURSIVE SV_pct_from(_, _, _)
SV_pct_from(t, pd, p) ==
    IF p > 3 THEN
        IF SV_half_branch_taken /\ Pct_half_price(t) # {}
        THEN [pd EXCEPT !.promotion_type = "percentage_off",
                        !.promotion_text = <<W("half price")>>,
                        !.promotion_discount_value = 5000]
        ELSE pd
    ELSE LET c == SV_pct_capture(t, p)
         IN IF c = None THEN SV_pct_from(t, pd, p + 1)
            ELSE IF PctInRange(c)
              THEN [pd EXCEPT !.promotion_type = "percentage_off",
                              !.promotion_text = <<N(c), W("%"), W("off")>>,
                              !.promotion_discount_value = c * 100]
            ELSE pd
SV_step_percentage(t, pd) == SV_pct_from(t, pd, 1)

\* save\s*[€£]\s*(\d+[.,]\d{2})  and the "saving" form of it.
SV_kw_euro_dec(t, kw) ==
    {i \in 1..(Len(t) - 2) :
        t[i].k = kw /\ t[i + 1].k = "€" /\ t[i + 2].k = "dec"}
\* [€£]\s*(\d+[.,]\d{2})\s*off
SV_euro_dec_off(t) ==
    {i \in 1..(Len(t) - 2) :
        t[i].k = "€" /\ t[i + 1].k = "dec" /\ t[i + 2].k = "off"}
SV_savings_capture(t, p) ==
    IF p = 1 THEN (IF SV_kw_euro_dec(t, "save") = {} THEN None
                   ELSE t[Min(SV_kw_euro_dec(t, "save")) + 2].n)
    ELSE IF p = 2 THEN (IF SV_kw_euro_dec(t, "saving") = {} THEN None
                        ELSE t[Min(SV_kw_euro_dec(t, "saving")) + 2].n)
    ELSE (IF SV_euro_dec_off(t) = {} THEN None
          ELSE t[Min(SV_euro_dec_off(t)) + 1].n)

\* === 5. fixed amount: fills the discount and the kind only where unset.
RECURSIVE SV_savings_from(_, _, _)
SV_savings_from(t, pd, p) ==
    IF p > 3 THEN pd
    ELSE LET c == SV_savings_capture(t, p)
         IN IF c # None /\ AmountInRange(c)
            THEN [pd EXCEPT
                    !.promotion_discount_value = IF Truthy(@) THEN @ ELSE c,
                    !.promotion_type =
                        IF pd.promotion_type = "none" THEN "fixed_amount_off" ELSE @,
                    !.promotion_text =
                        IF pd.promotion_type = "none"
                        THEN <<W("save"), W("€"), D(c)>> ELSE @]
            ELSE SV_savings_from(t, pd, p + 1)
SV_step_savings(t, pd) == SV_savings_from(t, pd, 1)

SpecialKeywords ==
    {"weekly special", "this week only", "limited time", "special offer",
     "price drop"}
\* (promotionBadge|SaleContent|PromoBadge)[^>]*>([^<]{0,100}) holds a keyword.
SV_special(t) ==
    LET S == {i \in 1..Len(t) : t[i].k = "badge>"}
    IN /\ S # {}
       /\ LET i == Min(S)
              stop == IF NextClose(t, i) = 0 THEN EndOf(t, Len(t))
                      ELSE StartOf(t, NextClose(t, i))
              hi == IF EndOf(t, i) + 100 < stop THEN EndOf(t, i) + 100 ELSE stop
          IN KindWithin(t, SpecialKeywords, EndOf(t, i), hi)

\* === 6. weekly special, only when nothing else set the kind.
SV_step_special(t, pd) ==
    IF SV_special(t) /\ pd.promotion_type = "none"
    THEN [pd EXCEPT !.promotion_type = "flash_sale",
                    !.promotion_text = <<W("weekly special")>>]
    ELSE pd

detect_supervalu_promotion_data(html, current_price) ==
    SV_step_special(html,
      SV_step_savings(html,
        SV_step_percentage(html,
          SV_step_multi_buy(html, current_price,
            SV_step_was(html, current_price,
              SV_step_real_rewards(html))))))

\* ------------------------------------ _scrape_supervalu_requests_fallback
\* A fetched page: html is its text, jsonld the offers.price of the Product
\* in its JSON-LD (None when the page has none).
MinGrocery == 50
MaxGrocery == 5000

\* (?![^<]{0,15}(?:/kg|/100g|per\s*kg|per\s*100g|per\s*litre)) after token d.
NearUnitToks == {"/kg", "/100g", "per kg", "per 100g", "per litre"}
SV_unit_ahead(t, d) ==
    \E j \in (d + 1)..Len(t) :
        /\ t[j].k \in NearUnitToks
        /\ EndOf(t, j) - Width(t[j]) - EndOf(t, d) <= 15
        /\ \A m \in (d + 1)..(j - 1) : t[m].k # "<"
\* €\s*(\d+[.,]\d{2})(?!\s*/(?:kg|...|ltr))(?![^<]{0,15}(?:/kg|...))
SV_euro_dec(t) ==
    {d \in 2..Len(t) :
        /\ t[d - 1].k = "€" /\ t[d].k = "dec"
        /\ (d = Len(t) \/ t[d + 1].k \notin (UnitSuffixToks \cup {"/ltr"}))
        /\ ~SV_unit_ahead(t, d)}
\* price["\s:]*(\d+[.,]\d{2})(?![^"]*(?:/kg|/100g|per))
PriceEndToks ==
    {"price", "real rewards price", "real reward price", "original price",
     "regular price", "half price", "better than half price", "clubcard price"}
PerToks == {"/kg", "/100g", "per kg", "per 100g", "per litre", "price per", "per unit"}
SV_price_dec(t) ==
    {d \in 2..Len(t) :
        /\ t[d - 1].k \in PriceEndToks /\ t[d].k = "dec"
        /\ \A j \in (d + 1)..Len(t) : t[j].k \notin PerToks}
\* (\d+[.,]\d{2})\s*€(?!\s*/(?:kg|...|ltr))
SV_dec_euro(t) ==
    {d \in 1..(Len(t) - 1) : t[d].k = "dec" /\ t[d + 1].k = "€"}

SV_PerUnitIndicators ==
    {"/kg", "/100g", "/ml", "/l", "/litre", "per kg", "per 100g", "per litre",
     "per unit", "unit price", "price per", "€/kg"}
Pow10(k) == IF k = 1 THEN 10 ELSE IF k = 2 THEN 100 ELSE IF k = 3 THEN 1000
            ELSE IF k = 4 THEN 10000 ELSE 100000
\* The text of price v ends the number n (the pattern is not anchored).
EndsNumber(n, v) == n % (Pow10(Digits(v \div 100)) * 100) = v
\* €?\s*{price}\s*{indicator} | {indicator}\s*€?\s*{price} found in the page.
SV_value_is_per_unit(t, v) ==
    \E d \in 1..Len(t) :
        /\ t[d].k = "dec"
        /\ \/ EndsNumber(t[d].n, v) /\ d < Len(t) /\ t[d + 1].k \in SV_PerUnitIndicators
           \/ t[d].n = v /\ d > 1 /\ t[d - 1].k \in SV_PerUnitIndicators
           \/ /\ t[d].n = v /\ d > 2 /\ t[d - 1].k = "€"
              /\ t[d - 2].k \in SV_PerUnitIndicators

\* found_prices, as a set: realistic and not next to a per-unit indicator.
SV_found_prices(t) ==
    {v \in {t[d].n : d \in SV_euro_dec(t) \cup SV_price_dec(t) \cup SV_dec_euro(t)} :
        /\ MinGrocery <= v /\ v <= MaxGrocery
        /\ ~SV_value_is_per_unit(t, v)}

\* The first of the sorted prices in the most specific range that has any.
SV_select_price(found) ==
    LET tea_prices == {p \in found : 200 <= p /\ p <= 1000}
        optimal_prices == {p \in tea_prices : 300 <= p /\ p <= 600}
        grocery_prices == {p \in found : 100 <= p /\ p <= 1500}
    IN IF optimal_prices # {} THEN Min(optimal_prices)
       ELSE IF tea_prices # {} THEN Min(tea_prices)
       ELSE IF grocery_prices # {} THEN Min(grocery_prices)
       ELSE Min(found)

\* (price, promotion_data) as scrape_store receives it; promo = FALSE is the
\* promotion_data None.
SV_Return(price, promo, pd) == [price |-> price, promo |-> promo, pd |-> pd]

scrape_supervalu(page) ==
    IF page.jsonld # None /\ PriceInRange(page.jsonld) THEN
        LET pd == detect_supervalu_promotion_data(page.html, page.jsonld)
        IN SV_Return(page.jsonld, pd.promotion_type # "none", pd)
    ELSE IF SV_found_prices(page.html) = {} THEN SV_Return(None, FALSE, SV_NoPromotion)
    ELSE
        LET price == SV_select_price(SV_found_prices(page.html))
            pd == detect_supervalu_promotion_data(page.html, price)
            normal_price == Or(pd.original_price, price)
        IN IF Truthy(pd.real_rewards_price) /\ pd.real_rewards_price < normal_price
           THEN SV_Return(pd.real_rewards_price, TRUE,
                          [pd EXCEPT !.original_price = normal_price])
           ELSE SV_Return(price, pd.promotion_type # "none", pd)

\* ------------------------------------------- detect_aldi_promotion_data
\* was_price_patterns, in order; the two class patterns need a currency sign
\* and allow text before it.
Aldi_WasKw ==
    <<"was", "class=\"was\">", "base-price__was>", "original price", "rrp",
      "previously">>
Aldi_was_dec(t, p, i) ==
    IF p \in {2, 3} THEN (IF NextEuro(t, i) = 0 THEN Len(t) + 1 ELSE NextEuro(t, i) + 1)
    ELSE IF i < Len(t) /\ t[i + 1].k = "€" THEN i + 2
    ELSE i + 1
Aldi_was_match(t, p) ==
    {i \in 1..Len(t) :
        /\ t[i].k = Aldi_WasKw[p]
        /\ Aldi_was_dec(t, p, i) <= Len(t) /\ t[Aldi_was_dec(t, p, i)].k = "dec"}

\* === 1. "Was" price: a price not above the current one hands over to the
\* next pattern.
RECURSIVE Aldi_was_from(_, _, _)
Aldi_was_from(t, current_price, p) ==
    IF p > Len(Aldi_WasKw) THEN NoPromotion
    ELSE IF Aldi_was_match(t, p) = {} THEN Aldi_was_from(t, current_price, p + 1)
    ELSE LET i == Min(Aldi_was_match(t, p))
             original_price == t[Aldi_was_dec(t, p, i)].n
         IN IF original_price > 0
               /\ (current_price = None \/ original_price > current_price)
            THEN [NoPromotion EXCEPT
                    !.original_price = original_price,
                    !.promotion_type = "temporary_discount",
                    !.promotion_text = <<W("was"), W("€"), D(original_price)>>,
                    !.promotion_discount_value =
                        IF Truthy(current_price) /\ original_price > current_price
                        THEN original_price - current_price ELSE None]
            ELSE Aldi_was_from(t, current_price, p + 1)
Aldi_step_was(t, current_price) == Aldi_was_from(t, current_price, 1)

\* === 2. Super Saver replaces the kind found so far.
Aldi_step_super_saver(t, pd) ==
    IF HasKind(t, {"super saver", "supersaver", "class=\"super-saver\""})
    THEN [pd EXCEPT !.promotion_type = "clearance",
                    !.promotion_text = <<W("super saver")>>]
    ELSE pd

\* === 3. Special Buy, only when no kind is set.
Aldi_step_special_buy(t, pd) ==
    IF HasKind(t, {"special buy", "specialbuy", "special offer", "limited time",
                   "while stocks last"})
       /\ pd.promotion_type = "none"
    THEN [pd EXCEPT !.promotion_type = "flash_sale",
                    !.promotion_text = <<W("special buy")>>]
    ELSE pd

\* save\s*[€£]?\s*(\d+[.,]\d{2})  and the "saving" form of it.
Aldi_kw_dec(t, kw) ==
    {i \in 1..(Len(t) - 1) :
        /\ t[i].k = kw
        /\ \/ t[i + 1].k = "dec"
           \/ t[i + 1].k = "€" /\ i + 2 <= Len(t) /\ t[i + 2].k = "dec"}
Aldi_kw_dec_value(t, kw) ==
    LET i == Min(Aldi_kw_dec(t, kw))
    IN IF t[i + 1].k = "dec" THEN t[i + 1].n ELSE t[i + 2].n

\* The pattern of savings_patterns that is the first to match, 0 if none.
Aldi_savings_pattern(t) ==
    IF Aldi_kw_dec(t, "save") # {} THEN 1
    ELSE IF Aldi_kw_dec(t, "saving") # {} THEN 2
    ELSE IF Pct_n_pct_kw(t, "off") # {} THEN 3
    ELSE IF Pct_save_n_pct(t) # {} THEN 4
    ELSE 0
Aldi_savings_value(t, p) ==
    IF p = 1 THEN Aldi_kw_dec_value(t, "save")
    ELSE IF p = 2 THEN Aldi_kw_dec_value(t, "saving")
    ELSE IF p = 3 THEN TailDigits(t[Min(Pct_n_pct_kw(t, "off"))])
    ELSE t[Min(Pct_save_n_pct(t)) + 1].n

\* === 4. savings: the first pattern that matches ends the loop; a percentage
\* replaces the kind, an amount only fills what is unset.
Aldi_step_savings(t, pd) ==
    LET p == Aldi_savings_pattern(t)
        value == Aldi_savings_value(t, p)
    IN IF p = 0 THEN pd
       ELSE IF p \in {3, 4} THEN
            IF PctInRange(value)
            THEN [pd EXCEPT !.promotion_type = "percentage_off",
                            !.promotion_text = <<N(value), W("%"), W("off")>>,
                            !.promotion_discount_value = value * 100]
            ELSE pd
       ELSE IF AmountInRange(value)
            THEN [pd EXCEPT
                    !.promotion_discount_value = IF Truthy(@) THEN @ ELSE value,
                    !.promotion_type =
                        IF pd.promotion_type = "none" THEN "fixed_amount_off" ELSE @,
                    !.promotion_text =
                        IF pd.promotion_type = "none"
                        THEN <<W("save"), W("€"), D(value)>> ELSE @]
       ELSE pd

\* (\d+)\s*for\s*[€£]?\s*(\d+[.,]\d{2})
Aldi_n_for(t) ==
    {i \in 1..(Len(t) - 2) :
        /\ IsNum(t[i]) /\ t[i + 1].k = "for"
        /\ \/ t[i + 2].k = "dec"
           \/ t[i + 2].k = "€" /\ i + 3 <= Len(t) /\ t[i + 3].k = "dec"}
\* buy\s*(\d+)\s*get\s*(\d+)
Aldi_buy_get(t) ==
    {i \in 1..(Len(t) - 3) :
        /\ t[i].k = "buy" /\ t[i + 1].k = "int" /\ t[i + 2].k = "get"
        /\ HasDigit(t[i + 3])}
\* (\d)\s*x\s*(\d)(?!\d)
Aldi_n_x_m(t) ==
    {i \in 1..(Len(t) - 2) :
        /\ IsNum(t[i]) /\ t[i + 1].k = "x" /\ t[i + 2].k = "int"
        /\ t[i + 2].n < 10}
\* A realistic NxM deal, not an image dimension.
Aldi_n_x_m_valid(num1, num2) ==
    ~(num1 = num2 \/ num1 < 2 \/ num2 < 1 \/ num1 > 5 \/ num2 > 5)

\* The text the multi-buy patterns produce, <<>> when none is accepted.
Aldi_multi_buy_text(t) ==
    IF Aldi_n_for(t) # {} THEN
        LET i == Min(Aldi_n_for(t))
            price == IF t[i + 2].k = "dec" THEN t[i + 2].n ELSE t[i + 3].n
        IN <<N(TailDigits(t[i])), W("for"), W("€"), D(price)>>
    ELSE IF Aldi_buy_get(t) # {} THEN
        LET i == Min(Aldi_buy_get(t))
        IN <<W("buy"), N(t[i + 1].n), W("get"),
             N(IF t[i + 3].k = "dec" THEN t[i + 3].n \div 100 ELSE t[i + 3].n)>>
    ELSE IF Aldi_n_x_m(t) # {} THEN
        LET i == Min(Aldi_n_x_m(t))
            num1 == TailDigits(t[i]) % 10
            num2 == t[i + 2].n
        IN IF Aldi_n_x_m_valid(num1, num2) THEN <<N(num1), W("x"), N(num2)>>
           ELSE <<>>
    ELSE <<>>

\* === 5. multi-buy replaces the kind found so far.
Aldi_step_multi_buy(t, pd) ==
    IF Aldi_multi_buy_text(t) # <<>>
    THEN [pd EXCEPT !.promotion_type = "multi_buy",
                    !.promotion_text = Aldi_multi_buy_text(t)]
    ELSE pd

detect_aldi_promotion_data(page_source, current_price) ==
    Aldi_step_multi_buy(page_source,
      Aldi_step_savings(page_source,
        Aldi_step_special_buy(page_source,
          Aldi_step_super_saver(page_source,
            Aldi_step_was(page_source, current_price)))))

\* ------------------------------------------------ extract_price_from_text
EPT_Indicators ==
    {"/kg", "/100g", "/ml", "/l", "/litre", "per kg", "per 100g", "per litre",
     "each", "/each"}
\* The numbers the three patterns find, pattern by pattern, in text order.
Euro_decs(t) == {d \in 2..Len(t) : t[d - 1].k = "€" /\ t[d].k = "dec"}
Dec_euros(t) == {d \in 1..(Len(t) - 1) : t[d].k = "dec" /\ t[d + 1].k = "€"}
Decs(t) == {d \in 1..Len(t) : t[d].k = "dec"}
\* First number among positions S of t whose value lies in [lo, hi], else None.
FirstInRange(t, S, lo, hi) ==
    LET R == {d \in S : lo <= t[d].n /\ t[d].n <= hi}
    IN IF R = {} THEN None ELSE t[Min(R)].n
\* The patterns tried in order over the whole text.
PatternsInOrder(t, lo, hi) ==
    IF FirstInRange(t, Euro_decs(t), lo, hi) # None
      THEN FirstInRange(t, Euro_decs(t), lo, hi)
    ELSE IF FirstInRange(t, Dec_euros(t), lo, hi) # None
      THEN FirstInRange(t, Dec_euros(t), lo, hi)
    ELSE FirstInRange(t, Decs(t), lo, hi)

extract_price_from_text(text) ==
    IF HasKind(text, EPT_Indicators) THEN None
    ELSE PatternsInOrder(text, MinPrice, MaxPrice)

\* ------------------------------------------------------------ scrape_aldi
\* A loaded page: elems are the texts of the elements the selectors find, in
\* the order they are tried; page_source is the whole page.
Aldi_Return(price, pd) ==
    [price |-> price, promo |-> pd.promotion_type # "none", pd |-> pd]
\* The price of the first element that yields one, None if none does.
RECURSIVE FirstElemPrice(_)
FirstElemPrice(elems) ==
    IF elems = <<>> THEN None
    ELSE IF Head(elems) # <<>> /\ Truthy(extract_price_from_text(Head(elems)))
      THEN extract_price_from_text(Head(elems))
    ELSE FirstElemPrice(Tail(elems))

scrape_aldi(page) ==
    IF Truthy(page.jsonld) /\ PriceInRange(page.jsonld)
    THEN Aldi_Return(page.jsonld,
                     detect_aldi_promotion_data(page.page_source, page.jsonld))
    ELSE IF FirstElemPrice(page.elems) # None
    THEN Aldi_Return(FirstElemPrice(page.elems),
                     detect_aldi_promotion_data(page.page_source,
                                                FirstElemPrice(page.elems)))
    ELSE [price |-> None, promo |-> FALSE, pd |-> NoPromotion]

\* -------------------------------------------- extract_tesco_product_price
Tesco_ProductIndicators ==
    {"/kg", "/100g", "/ml", "/l", "/litre", "per kg", "per 100g", "per litre",
     "each", "per unit", "unit price", "price per", "/each", "€/kg"}
MaxTescoProduct == 5000

extract_tesco_product_price(text) ==
    IF HasKind(text, Tesco_ProductIndicators) THEN None
    ELSE PatternsInOrder(text, MinPrice, MaxTescoProduct)

\* ------------------------------------------------ extract_tesco_all_prices
\* The page as BeautifulSoup sees it: a sequence of elements in document
\* order, each [text, parent, cls]: its text, its parent's text, and its class,
\* "priceText" (p.ddsweb-text ...priceText), "subtext" (.ddsweb-price__subtext)
\* or "value-bar" (p.ddsweb-text.ddsweb-value-bar__content-text).
Tesco_NoPrices ==
    [regular |-> None, clubcard |-> None, per_unit |-> None,
     multi_buy_promotions |-> <<>>]

\* Positions of the elements of the given classes, in document order.
ElemsOf(elems, classes) ==
    SelectSeq([i \in 1..Len(elems) |-> i], LAMBDA i : elems[i].cls \in classes)
\* The promotion selectors both select the value-bar elements.
Tesco_promotion_order(elems) == ElemsOf(elems, {"value-bar"})
\* all_price_selectors: three for priceText, [class*="price"], the subtext
\* one, two for the value bar; selectors that select the same elements in the
\* same order are taken once, which changes no field of the result.
Tesco_price_order(elems) ==
    ElemsOf(elems, {"priceText"}) \o ElemsOf(elems, {"priceText", "subtext"})
    \o ElemsOf(elems, {"subtext"}) \o ElemsOf(elems, {"value-bar"})

\* 'any 2 for', ..., '2 for €', ..., 'buy 2 get', 'buy 3 get', '2x1', '3x2',
\* 'multibuy' occurring in the text.
Tesco_is_multibuy(t) ==
    \/ \E i \in 1..(Len(t) - 2) :
          /\ t[i].k = "any" /\ t[i + 1].k = "int" /\ t[i + 1].n \in {2, 3, 4}
          /\ t[i + 2].k = "for"
    \/ \E i \in 1..(Len(t) - 2) :
          /\ IsNum(t[i]) /\ (t[i].n % 10) \in {2, 3, 4}
          /\ t[i + 1].k = "for" /\ t[i + 2].k = "€"
    \/ \E i \in 1..(Len(t) - 2) :
          /\ t[i].k = "buy" /\ t[i + 1].k = "int" /\ t[i + 1].n \in {2, 3}
          /\ t[i + 2].k = "get"
    \/ HasKind(t, {"2x1", "3x2", "multibuy"})

Tesco_PerUnitIndicators ==
    {"/kg", "/100g", "/ml", "/l", "/litre", "per kg", "per 100g", "per litre"}
Tesco_StrongClubcard == {"better than half price", "member price", "special offer"}
Tesco_ContextClubcard ==
    {"clubcard price", "better than half price", "member price", "special offer"}

\* if not result[k] or price_value > / < result[k]
Tesco_keep_max(old, v) == IF ~Truthy(old) \/ v > old THEN v ELSE old
Tesco_keep_min(old, v) == IF ~Truthy(old) \/ v < old THEN v ELSE old
Tesco_keep_first(old, v) == IF ~Truthy(old) THEN v ELSE old

\* One element of the promotion pass.
Tesco_promotion_step(result, e) ==
    IF Tesco_is_multibuy(e.text)
    THEN [result EXCEPT !.multi_buy_promotions = Append(@, e.text)]
    ELSE result

\* One element of the price pass: classified by the first rule that applies.
Tesco_price_step(result, e) ==
    LET text == e.text
        combined_context == e.text \o e.parent
        price_value == text[Min(Euro_decs(text))].n
    IN IF Euro_decs(text) = {} THEN result
       ELSE IF HasKind(text, Tesco_PerUnitIndicators)
         THEN [result EXCEPT !.per_unit = Tesco_keep_max(@, price_value)]
       ELSE IF Tesco_is_multibuy(text)
         THEN [result EXCEPT !.multi_buy_promotions = Append(@, text)]
       ELSE IF HasKind(text, ClubcardToks)
         THEN [result EXCEPT !.clubcard = Tesco_keep_min(@, price_value)]
       ELSE IF HasKind(text, Tesco_StrongClubcard)
         THEN [result EXCEPT !.clubcard = Tesco_keep_min(@, price_value)]
       ELSE IF HasKind(combined_context, Tesco_ContextClubcard)
         THEN [result EXCEPT !.clubcard = Tesco_keep_min(@, price_value)]
       ELSE IF price_value > 2000 /\ HasKind(combined_context, Tesco_PerUnitIndicators)
         THEN [result EXCEPT !.per_unit = Tesco_keep_max(@, price_value)]
       ELSE [result EXCEPT !.regular = Tesco_keep_first(@, price_value)]

RECURSIVE Tesco_promotion_pass(_, _, _)
Tesco_promotion_pass(result, elems, order) ==
    IF order = <<>> THEN result
    ELSE Tesco_promotion_pass(Tesco_promotion_step(result, elems[Head(order)]),
                              elems, Tail(order))
RECURSIVE Tesco_price_pass(_, _, _)
Tesco_price_pass(result, elems, order) ==
    IF order = <<>> THEN result
    ELSE Tesco_price_pass(Tesco_price_step(result, elems[Head(order)]),
                          elems, Tail(order))

extract_tesco_all_prices(elems) ==
    Tesco_price_pass(
        Tesco_promotion_pass(Tesco_NoPrices, elems, Tesco_promotion_order(elems)),
        elems, Tesco_price_order(elems))

\* ------------------------------------------------------------ scrape_tesco
\* A Tesco product page: elems as above; jsonld the offers.price of its
\* JSON-LD Product and inline the number after a "price": key in its scripts
\* (None when absent); fetch tells how the page can be had: "selenium" when
\* the browser loads it, "requests" when Akamai blocks the browser and the
\* plain request answers 200, "denied" when that is refused too.
\* _last_html_content: unset until a path stores a page.
Unset == [set |-> FALSE, elems |-> <<>>]
Stored(page) == [set |-> TRUE, elems |-> page.elems]

\* (price, _last_html_content afterwards)
Tesco_Return(price, html) == [price |-> price, html |-> html]

\* The first of the first two priceText elements that yields a product price.
Tesco_priority_price(elems) ==
    LET order == ElemsOf(elems, {"priceText"})
        first2 == SubSeq(order, 1, IF Len(order) < 2 THEN Len(order) ELSE 2)
        S == {j \in 1..Len(first2) :
                /\ elems[first2[j]].text # <<>>
                /\ Truthy(extract_tesco_product_price(elems[first2[j]].text))}
    IN IF S = {} THEN None
       ELSE extract_tesco_product_price(elems[first2[Min(S)]].text)

\* class="[^"]*priceText[^"]*"[^>]*>€?\s*(\d+[.,]\d{2}) over the first five
\* matches, each handed to extract_tesco_product_price as "€<match>".
Tesco_fallback_regex(elems) ==
    LET order == ElemsOf(elems, {"priceText"})
        S == {j \in 1..Len(order) :
                LET t == elems[order[j]].text
                IN \/ Len(t) >= 1 /\ t[1].k = "dec"
                   \/ Len(t) >= 2 /\ t[1].k = "€" /\ t[2].k = "dec"}
        value(j) == LET t == elems[order[j]].text
                    IN IF t[1].k = "dec" THEN t[1].n ELSE t[2].n
        first5 == {j \in S : Cardinality({m \in S : m < j}) < 5}
        R == {j \in first5 : MinPrice <= value(j) /\ value(j) <= MaxTescoProduct}
    IN IF R = {} THEN None ELSE value(Min(R))

_scrape_tesco_requests_fallback(page, html) ==
    IF page.fetch = "denied" THEN Tesco_Return(None, html)
    ELSE IF page.jsonld # None /\ PriceInRange(page.jsonld)
      THEN Tesco_Return(page.jsonld, Stored(page))
    ELSE IF Truthy(extract_tesco_all_prices(page.elems).regular)
      THEN Tesco_Return(extract_tesco_all_prices(page.elems).regular, Stored(page))
    ELSE IF Tesco_fallback_regex(page.elems) # None
      THEN Tesco_Return(Tesco_fallback_regex(page.elems), Stored(page))
    ELSE IF page.inline # None /\ MinPrice <= page.inline
            /\ page.inline <= MaxTescoProduct
      THEN Tesco_Return(page.inline, Stored(page))
    ELSE Tesco_Return(None, Stored(page))

scrape_tesco(page, html) ==
    IF page.fetch # "selenium" THEN _scrape_tesco_requests_fallback(page, html)
    ELSE IF Tesco_priority_price(page.elems) # None THEN
        \* === 1. selectors: the page is stored, a lower Clubcard price wins
        LET price == Tesco_priority_price(page.elems)
            all_prices == extract_tesco_all_prices(page.elems)
        IN IF Truthy(all_prices.clubcard) /\ all_prices.clubcard < price
           THEN Tesco_Return(all_prices.clubcard, Stored(page))
           ELSE Tesco_Return(price, Stored(page))
    \* === 2. JSON-LD: returns without storing the page
    ELSE IF page.jsonld # None /\ MinPrice <= page.jsonld
            /\ page.jsonld <= MaxTescoProduct
      THEN Tesco_Return(page.jsonld, html)
    \* === 3. keyed patterns; the two look-behind patterns after them do not
    \* compile, which ends the search
    ELSE IF page.inline # None /\ PriceInRange(page.inline)
      THEN Tesco_Return(page.inline, html)
    ELSE Tesco_Return(None, html)

\* ----------------------------------------------------------- scrape_dunnes
\* A Dunnes page: page_source its text, elems the texts of the elements the
\* key selectors find, jsonld as above, blocked = the Cloudflare challenge
\* did not resolve.
\* "price"[:\s]*"?(\d+[.,]\d{2})"? and the other keyed patterns.
Dunnes_keyed(t, kw) ==
    {d \in 2..Len(t) : t[d - 1].k = kw /\ t[d].k = "dec"}
\* "Price"[:\s]*"?€?(\d+[.,]\d{2})"?
Dunnes_keyed_euro(t, kw) ==
    {d \in 2..Len(t) :
        /\ t[d].k = "dec"
        /\ \/ t[d - 1].k = kw
           \/ d > 2 /\ t[d - 1].k = "€" /\ t[d - 2].k = kw}
\* price_patterns over the page source: pattern by pattern, match by match.
Dunnes_source_price(t) ==
    IF FirstInRange(t, Dunnes_keyed(t, "\"price\":"), MinPrice, MaxPrice) # None
      THEN FirstInRange(t, Dunnes_keyed(t, "\"price\":"), MinPrice, MaxPrice)
    ELSE IF FirstInRange(t, Euro_decs(t), MinPrice, MaxPrice) # None
      THEN FirstInRange(t, Euro_decs(t), MinPrice, MaxPrice)
    ELSE IF FirstInRange(t, Dunnes_keyed(t, "EUR"), MinPrice, MaxPrice) # None
      THEN FirstInRange(t, Dunnes_keyed(t, "EUR"), MinPrice, MaxPrice)
    ELSE IF FirstInRange(t, Dunnes_keyed(t, "\"amount\":"), MinPrice, MaxPrice) # None
      THEN FirstInRange(t, Dunnes_keyed(t, "\"amount\":"), MinPrice, MaxPrice)
    ELSE FirstInRange(t, Dunnes_keyed_euro(t, "\"Price\":"), MinPrice, MaxPrice)

scrape_dunnes(page) ==
    IF page.blocked THEN None
    ELSE IF Dunnes_source_price(page.page_source) # None
      THEN Dunnes_source_price(page.page_source)
    ELSE IF FirstElemPrice(page.elems) # None THEN FirstElemPrice(page.elems)
    ELSE IF Truthy(page.jsonld) /\ PriceInRange(page.jsonld) THEN page.jsonld
    ELSE None

\* ------------------------------------------------------------ scrape_store
\* What scrape_store hands to the upload for one product: ok = FALSE when no
\* price was extracted.
Store_record(price, original_price, promotion_type, promotion_text,
             promotion_discount_value) ==
    [ok |-> TRUE, price |-> price, original_price |-> original_price,
     promotion_type |-> promotion_type, promotion_text |-> promotion_text,
     promotion_discount_value |-> promotion_discount_value]

\* Aldi and SuperValu: the promotion data the scraper returned.
Store_from_scraper(r) ==
    IF ~Truthy(r.price) THEN NoRecord
    ELSE IF r.promo
      THEN Store_record(r.price, r.pd.original_price, r.pd.promotion_type,
                        r.pd.promotion_text, r.pd.promotion_discount_value)
    ELSE Store_record(r.price, None, "none", <<>>, None)

\* Tesco: the promotion is read from the stored _last_html_content.
Store_tesco(price, html) ==
    LET all_prices == extract_tesco_all_prices(html.elems)
    IN IF ~Truthy(price) THEN NoRecord
       ELSE IF ~html.set THEN Store_record(price, None, "none", <<>>, None)
       ELSE IF all_prices.multi_buy_promotions # <<>>
         THEN Store_record(price, price, "multi_buy",
                           Head(all_prices.multi_buy_promotions), None)
       ELSE IF Truthy(all_prices.clubcard) /\ Truthy(all_prices.regular)
               /\ price = all_prices.clubcard
         THEN Store_record(price, all_prices.regular, "membership_price",
                           <<W("clubcard price")>>,
                           all_prices.regular - all_prices.clubcard)
       ELSE IF Truthy(all_prices.clubcard) /\ Truthy(all_prices.regular)
               /\ price = all_prices.regular
               /\ all_prices.clubcard < all_prices.regular
         THEN Store_record(price, all_prices.regular, "membership_price",
                           <<W("clubcard price available")>>,
                           all_prices.regular - all_prices.clubcard)
       ELSE Store_record(price, None, "none", <<>>, None)

\* Dunnes (and any store without promotion data): the price alone.
Store_price_only(price) ==
    IF ~Truthy(price) THEN NoRecord
    ELSE Store_record(price, None, "none", <<>>, None)

\* -------------------------------------------------- normalize_text_encoding
\* A string is a sequence of characters, each named by its code point.
\* replacements, in the order of the dict: (bad, good).
Replacements ==
    << <<(<<"U+00E2", "U+00AC">>), (<<"U+20AC">>)>>,
       <<(<<"U+00E2", "U+201A", "U+00AC">>), (<<"U+20AC">>)>>,
       <<(<<"U+00C2", "U+00A3">>), (<<"U+00A3">>)>>,
       <<(<<"U+00C3", "U+00A9">>), (<<"U+00E9">>)>>,
       <<(<<"U+00C3", "U+00A8">>), (<<"U+00E8">>)>>,
       <<(<<"U+00C3", "U+00A2">>), (<<"U+00E2">>)>>,
       <<(<<"U+00E2", "U+20AC", "U+2122">>), (<<"U+0027">>)>>,
       <<(<<"U+00E2", "U+20AC", "U+0153">>), (<<"U+0022">>)>>,
       <<(<<"U+00E2", "U+20AC">>), (<<"U+0022">>)>>,
       <<(<<"U+00A0">>), (<<"U+0020">>)>> >>

\* str.replace(bad, good): every occurrence, left to right, not overlapping.
RECURSIVE Replace(_, _, _)
Replace(t, bad, good) ==
    IF Len(t) < Len(bad) THEN t
    ELSE IF SubSeq(t, 1, Len(bad)) = bad
      THEN good \o Replace(SubSeq(t, Len(bad) + 1, Len(t)), bad, good)
    ELSE <<t[1]>> \o Replace(Tail(t), bad, good)

\* The loop over replacements.items(), from entry k on.
RECURSIVE Replace_from(_, _)
Replace_from(result, k) ==
    IF k > Len(Replacements) THEN result
    ELSE Replace_from(Replace(result, Replacements[k][1], Replacements[k][2]),
                      k + 1)

normalize_text_encoding(text) ==
    IF text = <<>> THEN text ELSE Replace_from(text, 1)

\* ================================================ upload and status update
\* An answer of the API to one POST: status 200/201, status 429, another
\* status, or no answer (timeout, connection error).
Answers == {"ok", "rate_limited", "rejected", "no_answer"}
\* Attempts of the retry loop of upload_price.
MaxAttempts == 3

\* A loop that sends every attempt whatever the answers are.
Upload_attempts_all_sent(responses, a) ==
    [ok |-> \E k \in a..MaxAttempts : responses[k] = "ok",
     posts |-> MaxAttempts]
\* The retry loop from attempt a on: [ok, posts] = the value returned and the
\* number of POSTs sent.  A 2xx answer returns True, 429 and a request error go
\* to the next attempt, any other status returns False.
RECURSIVE Upload_attempts(_, _)
Upload_attempts(responses, a) ==
    IF a > MaxAttempts THEN [ok |-> FALSE, posts |-> MaxAttempts]
    ELSE IF responses[a] = "ok" THEN [ok |-> TRUE, posts |-> a]
    ELSE IF responses[a] = "rejected" THEN [ok |-> FALSE, posts |-> a]
    ELSE Upload_attempts(responses, a + 1)

\* SimpleLocalScraper.upload_price: a 2xx answer returns True; 429, another
\* status and a request error go to the next attempt while one is left.
RECURSIVE Local_upload_attempts(_, _)
Local_upload_attempts(responses, a) ==
    IF a > MaxAttempts THEN [ok |-> FALSE, posts |-> MaxAttempts]
    ELSE IF responses[a] = "ok" THEN [ok |-> TRUE, posts |-> a]
    ELSE IF responses[a] = "rate_limited"
      THEN Local_upload_attempts(responses, a + 1)
    ELSE IF a < MaxAttempts THEN Local_upload_attempts(responses, a + 1)
    ELSE [ok |-> FALSE, posts |-> a]

\* promotion_type of the payload: the Dunnes scraper sends temporary_discount
\* as 'other'.
Dunnes_payload_type(price_data) ==
    IF price_data.promotion_type = "temporary_discount" THEN "other"
    ELSE price_data.promotion_type
Tesco_payload_type(price_data) == price_data.promotion_type

\* An upload that sends its requests whether or not the run is a dry run.
upload_price_always_sends(dry, payload_type, responses) ==
    [ok |-> Upload_attempts(responses, 1).ok,
     posts |-> Upload_attempts(responses, 1).posts,
     payload_type |-> payload_type]

\* upload_price: [ok, posts, payload_type]; a dry run sends nothing.
upload_price(dry, payload_type, responses) ==
    IF dry THEN [ok |-> TRUE, posts |-> 0, payload_type |-> "none"]
    ELSE [ok |-> Upload_attempts(responses, 1).ok,
          posts |-> Upload_attempts(responses, 1).posts,
          payload_type |-> payload_type]

\* update_scraping_status: [ok, posts]; a dry run sends nothing.
update_scraping_status(dry, response) ==
    IF dry THEN [ok |-> TRUE, posts |-> 0]
    ELSE [ok |-> response = "ok", posts |-> 1]

\* The requests of one result item and the values the two calls returned
\* ("none": not called).
NoNet ==
    [uploads |-> 0, statuses |-> 0, upload_ret |-> "none",
     status_ret |-> "none", status_success |-> "none", payload_type |-> "none"]
Ret(b) == IF b THEN "True" ELSE "False"

\* ------------------------------------------------- matching in run()
\* A URL is a sequence of pieces: W(s) is the literal piece s (a host with its
\* prefix, a path segment "/...", a query "?..."), N(n) the path segment "/n".
\* The empty sequence is the empty string.
UrlHosts ==
    {"https://www.dunnesstores.com", "https://www.dunnesstores.ie",
     "https://www.tesco.ie/groceries/en-IE",
     "https://www.tesco.com/groceries/en-GB", "https://example.org"}
\* a in b, for strings spelled by pieces.
IsInfix(a, b) ==
    \E k \in 0..(Len(b) - Len(a)) : \A j \in 1..Len(a) : b[k + j] = a[j]

\* /(\d+)(?:[/?#].*)?$ : the first numeric segment that ends the URL or is
\* followed by a piece starting with "/", "?" or "#".
extract_dunnes_product_id(url) ==
    LET S == {k \in 1..Len(url) :
                /\ url[k].k = "int"
                /\ k = Len(url) \/ url[k + 1].k \notin UrlHosts}
    IN IF url = <<>> \/ S = {} THEN None ELSE url[Min(S)].n
\* /products/(\d+)
extract_tesco_product_id(url) ==
    LET S == {k \in 2..Len(url) : url[k].k = "int" /\ url[k - 1].k = "/products"}
    IN IF url = <<>> \/ S = {} THEN None ELSE url[Min(S)].n

\* The aliases the API returned, in order: scraper_url, product_id and the id
\* of the alias (None when the alias record carries no id).
Alias(scraper_url, product_id, id) ==
    [scraper_url |-> scraper_url, product_id |-> product_id, id |-> id]
DunnesAliases ==
    <<Alias(<<W("https://www.dunnesstores.com"), W("/c/tea"), N(101)>>, 1, 11),
      Alias(<<W("https://www.dunnesstores.com"), W("/c/milk"), N(102)>>, 2, None)>>
TescoAliases ==
    <<Alias(<<W("https://www.tesco.ie/groceries/en-IE"), W("/products"), N(101)>>, 1, 11),
      Alias(<<W("https://www.tesco.ie/groceries/en-IE"), W("/products"), N(102)>>, 2, None)>>

\* url_to_product, the id map and url_to_alias_id, built from the aliases.
Mapped(aliases) ==
    {k \in 1..Len(aliases) :
        aliases[k].scraper_url # <<>> /\ Truthy(aliases[k].product_id)}
url_to_product(aliases, url) ==
    LET S == {k \in Mapped(aliases) : aliases[k].scraper_url = url}
    IN IF S = {} THEN None
       ELSE aliases[CHOOSE k \in S : \A j \in S : j <= k].product_id
\* ids[k] is the store product id extracted from the URL of alias k.
id_to_product(aliases, ids, id) ==
    LET S == {k \in Mapped(aliases) : ids[k] = id}
    IN IF id = None \/ S = {} THEN None
       ELSE aliases[CHOOSE k \in S : \A j \in S : j <= k].product_id
url_to_alias_id(aliases, url) ==
    LET S == {k \in Mapped(aliases) :
                aliases[k].scraper_url = url /\ Truthy(aliases[k].id)}
    IN IF S = {} THEN None
       ELSE aliases[CHOOSE k \in S : \A j \in S : j <= k].id
\* Strategy 3: the first stored URL that contains the item's URL or is
\* contained in it.
partial_match(aliases, url) ==
    LET S == {k \in Mapped(aliases) :
                \/ IsInfix(url, aliases[k].scraper_url)
                \/ IsInfix(aliases[k].scraper_url, url)}
    IN IF S = {} THEN None ELSE aliases[Min(S)].product_id

\* The product and the alias id run() finds for an item; tried_id is the
\* store id strategy 2 looks up.
Match(aliases, ids, url, tried_id) ==
    LET direct == url_to_product(aliases, url)
        by_id == id_to_product(aliases, ids, tried_id)
        partial == partial_match(aliases, url)
    IN [product_id |-> IF Truthy(direct) THEN direct
                       ELSE IF Truthy(by_id) THEN by_id
                       ELSE partial,
        matched_by |-> IF Truthy(direct) THEN "url"
                       ELSE IF Truthy(by_id) THEN "id"
                       ELSE IF Truthy(partial) THEN "partial"
                       ELSE "none",
        alias_id |-> url_to_alias_id(aliases, url)]
DunnesAliasIds ==
    [k \in 1..Len(DunnesAliases) |->
        extract_dunnes_product_id(DunnesAliases[k].scraper_url)]
TescoAliasIds ==
    [k \in 1..Len(TescoAliases) |->
        extract_tesco_product_id(TescoAliases[k].scraper_url)]
Dunnes_match(s) ==
    Match(DunnesAliases, DunnesAliasIds, s.url,
          extract_dunnes_product_id(s.url))
Tesco_match(s) ==
    Match(TescoAliases, TescoAliasIds, s.url,
          Or(extract_tesco_product_id(s.url), s.sku))

\* The body of the result loop of run() for one item matched as m: the
\* requests sent, the counter of self.stats that was incremented, and the
\* answers of the API that were consumed.
Run_outcome(n, counter, answers, status_answer) ==
    [net |-> n, counter |-> counter, answers |-> answers,
     status_answer |-> status_answer]
Run_item(dry, m, price_data, payload_type, responses, status_response) ==
    LET st == update_scraping_status(dry, status_response)
        status_answer == IF st.posts = 0 THEN "none" ELSE status_response
    IN IF ~Truthy(m.product_id)
         THEN Run_outcome(NoNet, "prices_skipped", <<>>, "none")
       ELSE IF ~price_data.ok THEN
         IF Truthy(m.alias_id)
         THEN Run_outcome([NoNet EXCEPT !.statuses = st.posts,
                                        !.status_ret = Ret(st.ok),
                                        !.status_success = "False"],
                          "prices_skipped", <<>>, status_answer)
         ELSE Run_outcome(NoNet, "prices_skipped", <<>>, "none")
       ELSE
         LET up == upload_price(dry, payload_type, responses)
             sent == [NoNet EXCEPT !.uploads = up.posts,
                                   !.upload_ret = Ret(up.ok),
                                   !.payload_type = up.payload_type]
             counter == IF up.ok THEN "prices_uploaded" ELSE "prices_failed"
             answers == SubSeq(responses, 1, up.posts)
         IN IF Truthy(m.alias_id)
            THEN Run_outcome([sent EXCEPT !.statuses = st.posts,
                                          !.status_ret = Ret(st.ok),
                                          !.status_success = Ret(up.ok)],
                             counter, answers, status_answer)
            ELSE Run_outcome(sent, counter, answers, "none")

\* self.stats: the three counters of the result loop.
NoStats == [prices_uploaded |-> 0, prices_failed |-> 0, prices_skipped |-> 0]
\* A loop body that leaves the counters alone.
Counted_nothing(st, counter) == st
Counted(st, counter) == [st EXCEPT ![counter] = @ + 1]

\* ====================================================== inputs of the model
\* Every text of at most MaxPhrases phrases of a phrase set.
Texts(phrases) ==
    {Flatten(ss) : ss \in UNION {[1..n -> phrases] : n \in 0..MaxPhrases}}

Any3For5 == <<W("any"), N(3), W("for"), W("€"), D(500)>>
Buy2Get1 == <<W("buy"), N(2), W("get"), N(1), W("free")>>
Pct20Off == <<N(20), W("%"), W("off")>>
HalfPricePhrase == <<W("half price")>>
SaveEuro2 == <<W("save"), W("€"), D(200)>>
Was(w) == <<W("was"), W("€"), D(w)>>
Shown(c) == <<W("€"), D(c)>>
PerKg(c) == <<W("€"), D(c), W("/kg")>>
Pct95Off == <<N(95), W("%"), W("off")>>
SaveEuro150 == <<W("save"), W("€"), D(15000)>>
For3Pay2 == <<N(3), W("for"), N(2)>>
For7Euro5 == <<N(7), W("for"), W("€"), D(500)>>
\* "Only €2.00 Real Rewards Price ... non-Real Rewards members will pay €3"
MemberAndRegular ==
    <<W("only"), W("€"), D(200), W("real rewards price"),
      W("non-real rewards members will pay"), W("€"), N(3)>>

\* --- items of the Dunnes actor's dataset
DunnesPhrases ==
    {Any3For5, Buy2Get1, Pct20Off, <<N(95), W("%"), W("off")>>, HalfPricePhrase,
     SaveEuro2, Was(599), Was(299), SaveEuro150, For3Pay2}
DunnesItem(price, priceText, promotionType, promotionText, originalPrice,
           promotionDiscountValue, rawHtml) ==
    [price |-> price, priceText |-> priceText, promotionType |-> promotionType,
     promotionText |-> promotionText, originalPrice |-> originalPrice,
     wasPrice |-> None, promotionDiscountValue |-> promotionDiscountValue,
     rawHtml |-> rawHtml]
DunnesItems ==
    \* promotion text to parse, with or without the actor's originalPrice
    {DunnesItem(399, <<>>, "none", t, o, None, <<>>) :
        t \in Texts(DunnesPhrases), o \in {None, 699}}
    \cup \* the page text only
    {DunnesItem(399, <<>>, "none", <<>>, None, None, h) : h \in DunnesPhrases}
    \cup \* prices at and beyond the limits, or only in priceText
    {DunnesItem(p, pt, "none", t, None, None, <<>>) :
        p \in {None, 0, 1, 100000, 100001},
        pt \in {<<>>, Shown(249), <<N(2)>>, PerKg(199)},
        t \in {<<>>, Was(599), Was(150000)}}
    \cup \* promotion fields extracted by the actor
    {DunnesItem(399, <<>>, ty, Any3For5, o, d, <<>>) :
        ty \in {"multi_buy", "temporary_discount"}, o \in {None, 200, 599},
        d \in {None, 200}}

\* Items of a longer dataset: with a price, without one, with a "was" text,
\* with a price beyond the range.
DunnesResults ==
    {DunnesItem(pr, <<>>, "none", t, None, None, <<>>) :
        pr \in {None, 399, 100001}, t \in {<<>>, Was(599)}}

\* --- items of the Tesco actor's dataset
TescoDescriptions ==
    {<<>>, Any3For5 \o <<W("clubcard price")>>,
     <<W("€"), D(250), W("clubcard price")>>,
     <<P(50), W("clubcard price")>>,
     <<W("€"), D(450), W("clubcard price")>>,
     <<W("save"), N(20), W("%")>>, For3Pay2}
TescoItems ==
    [price : {None, 0, 350, 100001}, description : TescoDescriptions,
     terms : {<<>>, <<W("clubcard")>>}, clubcardPrice : {None, 250, 400},
     promoPrice : {None, 200}]

TescoResults ==
    [price : {None, 350}, description : {<<>>, <<W("€"), D(250), W("clubcard price")>>},
     terms : {<<>>}, clubcardPrice : {None}, promoPrice : {None}]

\* --- Aldi pages
AldiPhrases ==
    {Was(599), Was(299), Pct20Off, SaveEuro2, <<N(3), W("for"), W("€"), D(500)>>,
     <<W("super saver")>>, HalfPricePhrase, <<W("special buy")>>,
     Pct95Off, SaveEuro150, For7Euro5, <<N(2), W("x"), N(1)>>,
     <<N(3), W("x"), N(3)>>}
\* (elements found, JSON-LD price): how the page shows its price.
AldiPriceShown ==
    {[elems |-> <<>>, jsonld |-> 399], [elems |-> <<Shown(399)>>, jsonld |-> None],
     [elems |-> <<PerKg(199), Shown(399)>>, jsonld |-> 100001],
     [elems |-> <<PerKg(199)>>, jsonld |-> None]}
AldiPages ==
    {[elems |-> s.elems, jsonld |-> s.jsonld,
      page_source |-> Flatten(s.elems) \o t] :
        s \in AldiPriceShown, t \in Texts(AldiPhrases)}

\* --- SuperValu pages
SuperValuPhrases ==
    {<<W("only"), W("€"), D(200), W("real rewards price")>>,
     <<W("non-real rewards members will pay"), W("€"), N(3)>>,
     <<W("only"), W("€"), D(150000), W("real rewards price")>>,
     <<W("non-real rewards members will pay"), W("€"), D(200000)>>,
     Was(599), Any3For5, Pct20Off, HalfPricePhrase, SaveEuro2,
     <<W("badge>"), N(2), W("for"), W("€"), N(13), W("<")>>,
     Pct95Off, SaveEuro150, For7Euro5, MemberAndRegular}
SuperValuPages ==
    {[html |-> s \o t, jsonld |-> j] :
        s \in {Shown(300), PerKg(199)}, t \in Texts(SuperValuPhrases),
        j \in {None, 349}}

\* --- Dunnes pages
DunnesPages ==
    [page_source : {<<>>, PerKg(199), Shown(349), PerKg(199) \o Shown(349),
                    <<W("\"price\":"), D(349)>>, Shown(150000)},
     elems : {<<>>, <<Shown(349)>>, <<PerKg(199)>>},
     jsonld : {None, 349}, blocked : BOOLEAN]

\* --- Tesco pages
Elem(text, parent, cls) == [text |-> text, parent |-> parent, cls |-> cls]
ERegular == Elem(Shown(350), Shown(350) \o PerKg(199), "priceText")
EOther == Elem(Shown(420), Shown(420), "priceText")
ESubtext == Elem(PerKg(199), Shown(350) \o PerKg(199), "subtext")
EClubcard ==
    Elem(<<W("€"), D(250), W("clubcard price")>>,
         <<W("€"), D(250), W("clubcard price")>>, "value-bar")
EMultiBuy ==
    Elem(Any3For5 \o <<W("clubcard price")>>,
         Any3For5 \o <<W("clubcard price")>>, "value-bar")
TescoElems ==
    {<<>>, <<ERegular, ESubtext>>, <<EOther>>, <<ERegular, EClubcard>>,
     <<ERegular, EMultiBuy>>, <<ERegular, EClubcard, EMultiBuy>>,
     <<ESubtext, EClubcard>>}
TescoPages ==
    [elems : TescoElems, jsonld : {None, 300}, inline : {None, 280},
     fetch : {"selenium", "requests", "denied"}]

\* --- what an item of a run meets outside the program
Responses ==
    {<<"ok", "ok", "ok">>, <<"rate_limited", "ok", "ok">>,
     <<"no_answer", "rate_limited", "ok">>,
     <<"rate_limited", "rate_limited", "rate_limited">>,
     <<"no_answer", "no_answer", "no_answer">>,
     <<"rate_limited", "rejected", "ok">>, <<"rejected", "ok", "ok">>}
AllResponses == [1..MaxAttempts -> Answers]
StatusResponses == {"ok", "rejected"}
\* The url and the product_id/sku field of a result item: the URL of an
\* alias, that URL with a query, the product on another host, a prefix of an
\* alias URL, no URL, and a URL of no alias.
DunnesSightings ==
    {[url |-> u, sku |-> None] :
        u \in {DunnesAliases[1].scraper_url, DunnesAliases[2].scraper_url,
               DunnesAliases[1].scraper_url \o <<W("?ref=1")>>,
               <<W("https://www.dunnesstores.ie"), W("/p/tea"), N(101)>>,
               <<W("https://www.dunnesstores.com"), W("/c/tea")>>,
               <<>>,
               <<W("https://example.org"), W("/c/jam"), N(999)>>}}
TescoSightings ==
    {[url |-> u, sku |-> None] :
        u \in {TescoAliases[1].scraper_url, TescoAliases[2].scraper_url,
               TescoAliases[1].scraper_url \o <<W("?ref=1")>>,
               <<W("https://www.tesco.com/groceries/en-GB"), W("/products"), N(101)>>,
               <<W("https://www.tesco.ie/groceries/en-IE"), W("/products")>>,
               <<>>,
               <<W("https://example.org"), W("/c/jam"), N(999)>>}}
    \cup {[url |-> <<W("https://example.org"), W("/c/jam"), N(999)>>, sku |-> 101]}
\* What an item met: its url and sku, and the answers of the API that were
\* consumed.
Env(s, outcome) ==
    [url |-> s.url, sku |-> s.sku, answers |-> outcome.answers,
     status_answer |-> outcome.status_answer]
NoEnv == [none |-> TRUE]

\* --- texts handed to the price extractors
ExtractorTexts ==
    {<<>>, Shown(349), Shown(1), Shown(0), Shown(5000), Shown(5001),
     Shown(7500), Shown(100000), Shown(100001), <<D(349), W("€")>>, <<D(349)>>,
     <<N(3)>>, PerKg(199), PerKg(199) \o Shown(349), Shown(349) \o PerKg(199),
     Shown(349) \o <<W("each")>>, Shown(100001) \o Shown(349),
     Shown(349) \o Shown(249), <<W("now")>> \o Shown(349) \o <<W("only")>>}

\* --- strings handed to normalize_text_encoding: the characters of the keys
\* and values of the replacement table.
TableChars ==
    UNION {{Replacements[k][1][j] : j \in 1..Len(Replacements[k][1])}
              \cup {Replacements[k][2][j] : j \in 1..Len(Replacements[k][2])} :
           k \in 1..Len(Replacements)}
RECURSIVE StringsUpTo(_)
StringsUpTo(n) ==
    IF n = 0 THEN {<<>>}
    ELSE StringsUpTo(n - 1)
         \cup {<<c>> \o t : c \in TableChars, t \in StringsUpTo(n - 1)}
TableStrings == StringsUpTo(MaxChars)

\* ============================================================ state machine
Programs == {"apify_dunnes", "apify_tesco", "simple_local"}
NoInput == [none |-> TRUE]

Init ==
    /\ prog \in Programs
    /\ pc = "idle"
    /\ op = "none"
    /\ inp = NoInput
    /\ rec = NoRecord
    /\ last_html = Unset
    /\ dry_run \in (IF prog = "simple_local" THEN {FALSE} ELSE BOOLEAN)
    /\ env = NoEnv
    /\ net = NoNet
    /\ ret = None
    /\ stats = NoStats
    /\ processed = 0
    /\ normalized = <<>>

\* ApifyDunnesScraper.run: the result loop takes the next item of a dataset
\* of at most `most` items drawn from Items.
run_dunnes_from(Items, most) ==
    /\ prog = "apify_dunnes" /\ pc = "idle" /\ processed < most
    /\ \E item \in Items, s \in DunnesSightings,
         responses \in Responses, status_response \in StatusResponses :
          LET m == Dunnes_match(s)
              price_data == IF Truthy(m.product_id)
                            THEN Dunnes_extract_price_data(item)
                            ELSE NoRecord
              outcome == Run_item(dry_run, m, price_data,
                                  Dunnes_payload_type(price_data),
                                  responses, status_response)
          IN /\ inp' = item
             /\ env' = Env(s, outcome)
             /\ rec' = price_data
             /\ net' = outcome.net
             /\ stats' = Counted(stats, outcome.counter)
    /\ processed' = processed + 1
    /\ op' = "run_dunnes" /\ pc' = "done"
    /\ UNCHANGED <<prog, last_html, dry_run, ret, normalized>>

\* ApifyTescoScraper.run: the same loop.
run_tesco_from(Items, most) ==
    /\ prog = "apify_tesco" /\ pc = "idle" /\ processed < most
    /\ \E item \in Items, s \in TescoSightings,
         responses \in Responses, status_response \in StatusResponses :
          LET m == Tesco_match(s)
              price_data == IF Truthy(m.product_id)
                            THEN Tesco_extract_price_data(item)
                            ELSE NoRecord
              outcome == Run_item(dry_run, m, price_data,
                                  Tesco_payload_type(price_data),
                                  responses, status_response)
          IN /\ inp' = item
             /\ env' = Env(s, outcome)
             /\ rec' = price_data
             /\ net' = outcome.net
             /\ stats' = Counted(stats, outcome.counter)
    /\ processed' = processed + 1
    /\ op' = "run_tesco" /\ pc' = "done"
    /\ UNCHANGED <<prog, last_html, dry_run, ret, normalized>>

\* A dataset of one item, of any kind.
run_dunnes == run_dunnes_from(DunnesItems, 1)
run_tesco == run_tesco_from(TescoItems, 1)
\* A dataset of up to MaxItems items.
run_dunnes_results == run_dunnes_from(DunnesResults, MaxItems)
run_tesco_results == run_tesco_from(TescoResults, MaxItems)

\* SimpleLocalScraper.scrape_store, one product of each store.
scrape_store_aldi ==
    /\ prog = "simple_local" /\ pc = "idle"
    /\ \E page \in AldiPages :
          /\ inp' = page
          /\ rec' = Store_from_scraper(scrape_aldi(page))
    /\ op' = "Aldi" /\ pc' = "done"
    /\ UNCHANGED <<prog, last_html, dry_run, env, net, ret, stats, processed,
                 normalized>>

scrape_store_tesco ==
    /\ prog = "simple_local" /\ pc = "idle"
    /\ \E page \in TescoPages :
          LET r == scrape_tesco(page, last_html)
          IN /\ inp' = page
             /\ last_html' = r.html
             /\ rec' = Store_tesco(r.price, r.html)
    /\ op' = "Tesco" /\ pc' = "done"
    /\ UNCHANGED <<prog, dry_run, env, net, ret, stats, processed, normalized>>

scrape_store_supervalu ==
    /\ prog = "simple_local" /\ pc = "idle"
    /\ \E page \in SuperValuPages :
          /\ inp' = page
          /\ rec' = Store_from_scraper(scrape_supervalu(page))
    /\ op' = "SuperValu" /\ pc' = "done"
    /\ UNCHANGED <<prog, last_html, dry_run, env, net, ret, stats, processed,
                 normalized>>

scrape_store_dunnes ==
    /\ prog = "simple_local" /\ pc = "idle"
    /\ \E page \in DunnesPages :
          /\ inp' = page
          /\ rec' = Store_price_only(scrape_dunnes(page))
    /\ op' = "Dunnes" /\ pc' = "done"
    /\ UNCHANGED <<prog, last_html, dry_run, env, net, ret, stats, processed,
                 normalized>>

\* The loop goes on to the next product.
next_product ==
    /\ pc = "done"
    /\ pc' = "idle" /\ op' = "none" /\ inp' = NoInput /\ rec' = NoRecord
    /\ env' = NoEnv /\ net' = NoNet /\ ret' = None
    /\ normalized' = <<>>
    /\ UNCHANGED <<prog, last_html, dry_run, stats, processed>>

\* A text is handed to extract_price_from_text / extract_tesco_product_price.
call_extract_price_from_text ==
    /\ prog = "simple_local" /\ pc = "idle"
    /\ \E text \in ExtractorTexts :
          /\ inp' = [text |-> text]
          /\ ret' = extract_price_from_text(text)
    /\ op' = "extract_price_from_text" /\ pc' = "done"
    /\ UNCHANGED <<prog, rec, last_html, dry_run, env, net, stats, processed,
                 normalized>>

call_extract_tesco_product_price ==
    /\ prog = "simple_local" /\ pc = "idle"
    /\ \E text \in ExtractorTexts :
          /\ inp' = [text |-> text]
          /\ ret' = extract_tesco_product_price(text)
    /\ op' = "extract_tesco_product_price" /\ pc' = "done"
    /\ UNCHANGED <<prog, rec, last_html, dry_run, env, net, stats, processed,
                 normalized>>

\* A string is handed to normalize_text_encoding.
call_normalize_text_encoding ==
    /\ prog = "simple_local" /\ pc = "idle"
    /\ \E text \in TableStrings :
          /\ inp' = [text |-> text]
          /\ normalized' = normalize_text_encoding(text)
    /\ op' = "normalize_text_encoding" /\ pc' = "done"
    /\ UNCHANGED <<prog, rec, last_html, dry_run, env, net, ret, stats,
                 processed>>

\* upload_price is called with a price record.
call_upload_price ==
    /\ pc = "idle"
    /\ \E responses \in AllResponses :
          LET up == IF prog = "simple_local"
                    THEN Local_upload_attempts(responses, 1)
                    ELSE upload_price(dry_run, "none", responses)
          IN /\ env' = [responses |-> responses]
             /\ net' = [NoNet EXCEPT !.uploads = up.posts,
                                     !.upload_ret = Ret(up.ok)]
    /\ op' = "upload_price" /\ pc' = "done"
    /\ UNCHANGED <<prog, inp, rec, last_html, dry_run, ret, stats, processed,
                 normalized>>

Next ==
    \/ call_normalize_text_encoding
    \/ run_dunnes
    \/ run_tesco
    \/ scrape_store_aldi
    \/ scrape_store_tesco
    \/ scrape_store_supervalu
    \/ scrape_store_dunnes
    \/ next_product
    \/ call_extract_price_from_text
    \/ call_extract_tesco_product_price
    \/ call_upload_price

Spec == Init /\ [][Next]_vars

\* The Apify scrapers over datasets of several items.
InitRun == Init /\ prog \in {"apify_dunnes", "apify_tesco"}
NextRun ==
    \/ run_dunnes_results
    \/ run_tesco_results
    \/ next_product
SpecRun == InitRun /\ [][NextRun]_vars

\* ================================================================== claims
\* A record was produced for upload by the operation just run.
Produced == pc = "done" /\ rec.ok

\* C1: every price record produced for upload has 0.01 <= price <= 1000.00,
\* on every path that can set the price.
C1_PriceWithinLimits ==
    Produced => MinPrice <= rec.price /\ rec.price <= MaxPrice

\* C2: in every produced record in which original_price is set,
\* original_price > price.
C2_OriginalAbovePrice ==
    Produced /\ rec.original_price # None => rec.original_price > rec.price

\* C3: in every produced record in which original_price and
\* promotion_discount_value are both set, promotion_discount_value equals
\* original_price - price.
C3_DiscountIsDifference ==
    Produced /\ rec.original_price # None /\ rec.promotion_discount_value # None
        => rec.promotion_discount_value = rec.original_price - rec.price

\* Unit suffixes and words that mark a number as a per-unit price.
PerUnitMarks ==
    {"/kg", "/100g", "/ml", "/l", "/litre", "per kg", "per 100g", "per litre"}
\* The price v stands in text t somewhere without a per-unit mark after it.
StandsAlone(t, v) ==
    \E d \in 1..Len(t) :
        /\ t[d].k = "dec" /\ t[d].n = v
        /\ (d = Len(t) \/ t[d + 1].k \notin PerUnitMarks)
StandsAloneIn(texts, v) == \E j \in 1..Len(texts) : StandsAlone(texts[j], v)

\* C4: a price that appears only with a per-unit indicator next to it is
\* never returned as the primary price, by any price-selection routine of the
\* local scraper.
C4_NoPerUnitPrimary ==
    Produced =>
        /\ op = "Dunnes" =>
              \/ StandsAlone(inp.page_source, rec.price)
              \/ StandsAloneIn(inp.elems, rec.price)
              \/ inp.jsonld = rec.price
        /\ op = "Aldi" =>
              StandsAloneIn(inp.elems, rec.price) \/ inp.jsonld = rec.price
        /\ op = "SuperValu" =>
              StandsAlone(inp.html, rec.price) \/ inp.jsonld = rec.price

\* The percentage patterns "N% off" / "save N%" match with N in range.
MatchesPercentage(t) ==
    \/ Pct_n_pct_kw(t, "off") # {} /\ PctInRange(TailDigits(t[Min(Pct_n_pct_kw(t, "off"))]))
    \/ Pct_save_n_pct(t) # {} /\ PctInRange(t[Min(Pct_save_n_pct(t)) + 1].n)

\* C5: whenever the searched text matches both a multi-buy pattern and a
\* percentage-off pattern, the classifier returns kind multi_buy (Dunnes,
\* SuperValu, Aldi).
C5_MultiBuyBeforePercentage ==
    Produced =>
        /\ op = "run_dunnes" /\ inp.promotionType = "none"
           /\ Dunnes_multibuy(Dunnes_text_to_search(inp)).hit
           /\ MatchesPercentage(Dunnes_text_to_search(inp))
              => rec.promotion_type = "multi_buy"
        /\ op = "SuperValu"
           /\ (SV_badge_multi(SV_badge_text(inp.html)) \/ SV_multi_buy_text(inp.html) # <<>>)
           /\ MatchesPercentage(inp.html)
              => rec.promotion_type = "multi_buy"
        /\ op = "Aldi" /\ Aldi_multi_buy_text(inp.page_source) # <<>>
           /\ MatchesPercentage(inp.page_source)
              => rec.promotion_type = "multi_buy"

\* C6: extraction has no hidden state: the record of a product is the one a
\* scraper that has processed nothing before produces from the same page.
C6_NoHiddenState ==
    pc = "done" /\ op = "Tesco" =>
        rec = Store_tesco(scrape_tesco(inp, Unset).price, scrape_tesco(inp, Unset).html)

\* Deal text of the form "Any N for €X" or "N for €X".
IsDealText(t) ==
    \/ /\ Len(t) = 5 /\ t[1].k = "any" /\ t[2].k = "int" /\ t[3].k = "for"
       /\ t[4].k = "€" /\ IsNum(t[5])
    \/ /\ Len(t) = 4 /\ t[1].k = "int" /\ t[2].k = "for" /\ t[3].k = "€"
       /\ IsNum(t[4])

\* C7: when a multi-buy deal "Any N for €X" / "N for €X" is detected, the
\* record has kind multi_buy, its promotion text is the deal text as it
\* appeared in the input, and its price stays the regular unit price.
C7_MultiBuyKeepsTextAndPrice ==
    Produced =>
        /\ op = "run_dunnes" /\ inp.promotionType = "none" /\ Truthy(inp.price)
           /\ IsDealText(inp.promotionText)
              => /\ rec.promotion_type = "multi_buy"
                 /\ rec.promotion_text = inp.promotionText
                 /\ rec.price = inp.price
        /\ op = "Tesco" /\ rec.promotion_type = "multi_buy"
              => rec.price = extract_tesco_all_prices(inp.elems).regular

\* The text is exactly "Was €W".
IsWasText(t) ==
    Len(t) = 3 /\ t[1].k = "was" /\ t[2].k = "€" /\ t[3].k = "dec"
\* The item carries no promotion field of the actor.
NoActorPromotion(item) ==
    /\ item.promotionType = "none" /\ item.originalPrice = None
    /\ item.wasPrice = None

\* The text of a page after the texts of its price elements.
BeyondElems(page) ==
    SubSeq(page.page_source, Len(Flatten(page.elems)) + 1, Len(page.page_source))

\* C8: for text that is only a "Was W" phrase and a chosen current price P
\* with W > P, the classifier returns kind temporary_discount with
\* original_price = W and promotion_discount_value = W - P.  The text is the
\* one the classifier searches: the promotion text of a Dunnes item that
\* carries no promotion fields of the actor, the Aldi page beyond its price
\* elements.
C8_WasOnly ==
    Produced =>
        /\ op = "run_dunnes" /\ NoActorPromotion(inp)
           /\ IsWasText(Dunnes_text_to_search(inp))
           /\ Dunnes_text_to_search(inp)[3].n > rec.price
              => /\ rec.promotion_type = "temporary_discount"
                 /\ rec.original_price = Dunnes_text_to_search(inp)[3].n
                 /\ rec.promotion_discount_value =
                        Dunnes_text_to_search(inp)[3].n - rec.price
        /\ op = "Aldi" /\ IsWasText(BeyondElems(inp))
           /\ BeyondElems(inp)[3].n > rec.price
              => /\ rec.promotion_type = "temporary_discount"
                 /\ rec.original_price = BeyondElems(inp)[3].n
                 /\ rec.promotion_discount_value = BeyondElems(inp)[3].n - rec.price

\* C8 witness: a Dunnes item whose promotion text is only "Was W", W above the
\* chosen price, classified as a temporary discount.
C8_WasOnly_Witness ==
    /\ Produced /\ op = "run_dunnes" /\ NoActorPromotion(inp)
    /\ IsWasText(Dunnes_text_to_search(inp))
    /\ Dunnes_text_to_search(inp)[3].n > rec.price
    /\ rec.promotion_type = "temporary_discount"

\* C9: every record of kind membership_price has the member (Clubcard / Real
\* Rewards) price as its price and the regular price as original_price, with
\* price < original_price.
C9_MembershipPrice ==
    Produced /\ rec.promotion_type = "membership_price" =>
        /\ rec.original_price # None
        /\ rec.price < rec.original_price
        /\ op = "Tesco" => rec.price = extract_tesco_all_prices(inp.elems).clubcard
        /\ op = "SuperValu" => rec.price = SV_real_rewards_price(inp.html)

\* The page text is a shown price followed by the phrase "Half Price" only.
IsPriceThenHalfPrice(t) ==
    Len(t) = 3 /\ t[1].k = "€" /\ t[2].k = "dec" /\ t[3].k = "half price"

\* C10: text containing the phrase "Half Price" and matching no
\* higher-priority promotion family is classified as percentage_off with
\* promotion_discount_value = 50.0 by every retailer's classifier.
C10_HalfPrice ==
    Produced =>
        /\ op = "run_dunnes" /\ NoActorPromotion(inp)
           /\ Dunnes_text_to_search(inp) = HalfPricePhrase
              => /\ rec.promotion_type = "percentage_off"
                 /\ rec.promotion_discount_value = 5000
        /\ op = "SuperValu" /\ IsPriceThenHalfPrice(inp.html)
              => /\ rec.promotion_type = "percentage_off"
                 /\ rec.promotion_discount_value = 5000
        /\ op = "Aldi" /\ BeyondElems(inp) = HalfPricePhrase
              => /\ rec.promotion_type = "percentage_off"
                 /\ rec.promotion_discount_value = 5000

\* The two price extractors of the local scraper.
ExtractOps == {"extract_price_from_text", "extract_tesco_product_price"}
Extracted == pc = "done" /\ op \in ExtractOps
\* A per-unit marker of either extractor's list occurs in the text.
HasMarker(t) ==
    HasKind(t, EPT_Indicators \cup Tesco_ProductIndicators \cup PerUnitMarks)
\* Positions of the currency-qualified two-decimal numbers of a text.
Qualified(t) == Euro_decs(t) \cup Dec_euros(t)

\* C11: for every price text with a currency-qualified two-decimal number of
\* value in [0.01, 1000.00] and no per-unit marker, the extractor returns that
\* value (the text holds that one qualified number).
C11_QualifiedPriceReturned ==
    Extracted /\ ~HasMarker(inp.text) /\ Cardinality(Qualified(inp.text)) = 1 =>
        \A d \in Qualified(inp.text) :
            PriceInRange(inp.text[d].n) => ret = inp.text[d].n

\* Numbers with a per-unit marker right after them, and the currency-qualified
\* numbers without one.
MarkedDecs(t) ==
    {d \in Decs(t) : d < Len(t) /\ t[d + 1].k \in PerUnitMarks}
ItemDecs(t) == Euro_decs(t) \ MarkedDecs(t)

\* C12: when a per-unit price stands next to a valid item price in the
\* extractor's input, the per-unit value is excluded and the item price is
\* the price returned.
C12_ItemPriceBesidePerUnit ==
    Extracted /\ MarkedDecs(inp.text) # {}
    /\ Cardinality(ItemDecs(inp.text)) = 1 =>
        \A d \in ItemDecs(inp.text) :
            MinPrice <= inp.text[d].n /\ inp.text[d].n <= MaxTescoProduct
                => ret = inp.text[d].n

\* The five promotion kinds.
PromotionKinds ==
    {"multi_buy", "membership_price", "percentage_off", "fixed_amount_off",
     "temporary_discount"}

\* C13: the promotion kind of every record handed to the upload step, and of
\* every upload payload, is one of the five kinds.
C13_KindIsEnumerated ==
    pc = "done" =>
        /\ rec.promotion_type \in PromotionKinds \cup {"none"}
        /\ net.payload_type \in PromotionKinds \cup {"none"}

\* C14: an Apify scraper constructed with dry_run = True sends no price upload
\* and no status update to the API, and upload_price and
\* update_scraping_status both report success.
C14_DryRunSendsNothing ==
    dry_run /\ pc = "done" =>
        /\ net.uploads = 0 /\ net.statuses = 0
        /\ net.upload_ret \in {"none", "True"}
        /\ net.status_ret \in {"none", "True"}

\* C14 witness: a dry run in which both calls were made.
C14_DryRunSendsNothing_Witness ==
    /\ dry_run /\ pc = "done" /\ rec.ok
    /\ op \in {"run_dunnes", "run_tesco"}
    /\ net.upload_ret = "True" /\ net.status_ret = "True"
    /\ net.uploads = 0 /\ net.statuses = 0

\* The text a classifier searched, and the part of it that is not the shown
\* price.
SearchText ==
    IF op = "run_dunnes" THEN Dunnes_text_to_search(inp)
    ELSE IF op = "Aldi" THEN inp.page_source
    ELSE inp.html
PromotionText ==
    IF op = "run_dunnes" THEN Dunnes_text_to_search(inp)
    ELSE IF op = "Aldi" THEN BeyondElems(inp)
    ELSE IF Len(inp.html) >= 3 /\ SubSeq(inp.html, 1, 3) = PerKg(199)
      THEN [i \in 1..(Len(inp.html) - 3) |-> inp.html[i + 3]]
    ELSE IF Len(inp.html) >= 2
      THEN [i \in 1..(Len(inp.html) - 2) |-> inp.html[i + 2]]
    ELSE <<>>
\* A record produced by one of the text classifiers from the text itself.
Classified ==
    /\ Produced /\ op \in {"run_dunnes", "Aldi", "SuperValu"}
    /\ op = "run_dunnes" => NoActorPromotion(inp)

\* C15: the families are tried in the order multi-buy, membership price,
\* temporary discount, percentage off, fixed amount off; text matching a
\* was-price pattern (was-price above the current price) and a percentage-off
\* or fixed-amount pattern, and no multi-buy or membership pattern, is
\* classified temporary_discount.
C15_WasBeforePercentage ==
    Produced =>
        /\ op = "run_dunnes" /\ NoActorPromotion(inp)
           /\ ~Dunnes_multibuy(SearchText).hit
           /\ Dunnes_was_text(SearchText, rec.price).hit
           /\ (MatchesPercentage(SearchText) \/ Dunnes_savings(SearchText).hit)
              => rec.promotion_type = "temporary_discount"
        /\ op = "SuperValu"
           /\ SV_step_real_rewards(inp.html).promotion_type = "none"
           /\ ~SV_badge_multi(SV_badge_text(inp.html))
           /\ SV_multi_buy_text(inp.html) = <<>>
           /\ SV_step_was(inp.html, rec.price, SV_NoPromotion).promotion_type
                 = "temporary_discount"
           /\ MatchesPercentage(inp.html)
              => rec.promotion_type = "temporary_discount"

\* C16: a temporary discount is produced only when the was-price exceeds the
\* current price: every temporary_discount record has an original_price above
\* its price.
C16_WasAboveCurrent ==
    Produced /\ rec.promotion_type = "temporary_discount" =>
        rec.original_price # None /\ rec.original_price > rec.price

\* N% occurs in the text with N hundredths-of-percent equal to v.
PercentageOccurs(t, v) ==
    \E i \in 1..(Len(t) - 1) :
        HasDigit(t[i]) /\ t[i + 1].k = "%" /\ TailDigits(t[i]) * 100 = v

\* C17: every percentage_off promotion derived from a numeric percentage
\* pattern has promotion_discount_value N with 0 < N <= 90, N a percentage of
\* the text; a percentage outside the range produces no percentage_off.
C17_PercentageBounded ==
    Classified =>
        /\ rec.promotion_type = "percentage_off"
           /\ rec.promotion_text # HalfPricePhrase =>
              /\ 0 < rec.promotion_discount_value
              /\ rec.promotion_discount_value <= MaxPct
              /\ PercentageOccurs(SearchText, rec.promotion_discount_value)
        /\ PromotionText = Pct95Off => rec.promotion_type # "percentage_off"

\* C17 witness: a text with "20% off" and "95% off" classified as 20% off.
C17_PercentageBounded_Witness ==
    /\ Classified /\ rec.promotion_type = "percentage_off"
    /\ PercentageOccurs(SearchText, 9500)
    /\ rec.promotion_discount_value = 2000

\* An amount d+.dd occurs in the text with value v.
AmountOccurs(t, v) == \E i \in 1..Len(t) : t[i].k = "dec" /\ t[i].n = v

C19_MultiBuyGuard ==
    Produced /\ op \in {"Aldi", "SuperValu"}
    /\ PromotionText \in {<<N(3), W("x"), N(3)>>, <<N(2), W("x"), N(1)>>,
                          For7Euro5} =>
        rec.promotion_type # "multi_buy"

\* C20: a "(quantity) for (price)" match needs a currency-qualified price:
\* "3 for 2" is never classified multi_buy.
C20_ForNeedsCurrency ==
    Produced =>
        /\ op = "run_dunnes" /\ NoActorPromotion(inp)
           /\ Dunnes_text_to_search(inp) = For3Pay2
              => rec.promotion_type # "multi_buy"
        /\ op = "run_tesco" /\ inp.description = For3Pay2
              => rec.promotion_type # "multi_buy"
        /\ op = "SuperValu" /\ PromotionText = For3Pay2
              => rec.promotion_type # "multi_buy"

C22_NonPositiveDiscountDropped ==
    Produced /\ op = "SuperValu" /\ inp.jsonld = None
    /\ SV_real_rewards_price(inp.html) # None
    /\ SV_real_rewards_price(inp.html) > rec.price =>
        /\ rec.promotion_type = "none" /\ rec.promotion_text = <<>>
        /\ rec.promotion_discount_value = None /\ rec.original_price = None

\* A field of the Dunnes item holds a valid price that is not a per-unit
\* price.
Dunnes_has_candidate(item) ==
    \/ Truthy(item.price) /\ PriceInRange(item.price)
    \/ \E k \in 1..Len(item.priceText) :
          /\ item.priceText[k].k = "dec"
          /\ PriceInRange(item.priceText[k].n)
          /\ StandsAlone(item.priceText, item.priceText[k].n)

\* C23: when an item matched to a product has no valid price candidate that
\* is not a per-unit price, extraction returns None instead of a record, no
\* price is uploaded for the item, the run counts it as skipped and, when its
\* alias is known, reports it as failed.
C23_NoPriceNoUpload ==
    pc = "done" /\ op = "run_dunnes" /\ env.url # <<>>
    /\ Truthy(Dunnes_match(env).product_id)
    /\ ~Dunnes_has_candidate(inp) =>
        /\ ~rec.ok /\ net.uploads = 0 /\ net.upload_ret = "none"
        /\ stats.prices_skipped = 1
        /\ Truthy(Dunnes_match(env).alias_id) => net.status_success = "False"

\* C24: the final record is validated against the price range for
\* original_price as it is for price: no record is produced whose
\* original_price lies outside [0.01, 1000.00].
C24_OriginalPriceWithinLimits ==
    Produced /\ rec.original_price # None =>
        MinPrice <= rec.original_price /\ rec.original_price <= MaxPrice

\* The values matched by the pattern "currency sign, number" in a text.
Euro_values(t) == {t[d].n : d \in Euro_decs(t)}

\* C25: candidates of equal specificity are ordered by value ascending: when
\* a text without a per-unit marker holds two in-range prices matched by the
\* same pattern, extract_price_from_text returns the lower one, whatever
\* their order in the text.
C25_LowestOfEqualCandidates ==
    pc = "done" /\ op = "extract_price_from_text" /\ ~HasMarker(inp.text)
    /\ Cardinality({v \in Euro_values(inp.text) : PriceInRange(v)}) >= 2 =>
        ret = Min({v \in Euro_values(inp.text) : PriceInRange(v)})

\* An item of the result loop of an Apify run has been processed.
RunOps == {"run_dunnes", "run_tesco"}
ItemDone == pc = "done" /\ op \in RunOps
\* What run() matched the item to.
Matched ==
    IF op = "run_dunnes" THEN Dunnes_match(env) ELSE Tesco_match(env)
RunAliases == IF op = "run_dunnes" THEN DunnesAliases ELSE TescoAliases

\* C26: prices_uploaded + prices_failed + prices_skipped equals the number of
\* result items processed: every item increments exactly one of the three
\* counters, once.
C26_CountersSumToItems ==
    stats.prices_uploaded + stats.prices_failed + stats.prices_skipped
        = processed

\* C26 witness: a run of MaxItems items, one uploaded and one not.
C26_CountersSumToItems_Witness ==
    /\ ItemDone /\ processed = MaxItems
    /\ stats.prices_uploaded >= 1
    /\ stats.prices_failed + stats.prices_skipped >= 1

\* C28: an item with an empty or missing URL is never matched to a product:
\* no price is extracted and no price is uploaded for it.
C28_EmptyUrlNeverMatched ==
    ItemDone /\ env.url = <<>> =>
        /\ ~Truthy(Matched.product_id)
        /\ ~rec.ok /\ net.upload_ret = "none" /\ net.uploads = 0

\* C29: in a run that is not a dry run, every item with a URL that is matched
\* to a product whose alias has an id leads to exactly one
\* update_scraping_status request, whichever strategy matched it.
C29_OneStatusPerMatchedAlias ==
    ItemDone /\ ~dry_run /\ env.url # <<>> /\ Truthy(Matched.product_id)
    /\ (\E k \in 1..Len(RunAliases) :
            /\ RunAliases[k].product_id = Matched.product_id
            /\ Truthy(RunAliases[k].id)) =>
        net.statuses = 1 /\ net.status_success # "none"

\* C27: upload_price sends at most 3 POSTs for one price whatever the server
\* answers; it returns True only if an attempt was answered with 200 or 201,
\* that attempt is the last request it sends, and it returns False when all
\* attempts are used up without such an answer.
C27_UploadAtMostThreePosts ==
    pc = "done" /\ op = "upload_price" =>
        /\ net.uploads <= MaxAttempts
        /\ net.upload_ret \in {"True", "False"}
        /\ ~dry_run =>
              /\ net.uploads >= 1
              /\ net.upload_ret = "True" <=> env.responses[net.uploads] = "ok"
              /\ \A a \in 1..(net.uploads - 1) : env.responses[a] # "ok"
              /\ (\A a \in 1..MaxAttempts : env.responses[a] # "ok")
                    => net.upload_ret = "False"

\* C27 witness: the third attempt is answered with 200 after a 429 and a
\* timeout.
C27_UploadAtMostThreePosts_Witness ==
    /\ pc = "done" /\ op = "upload_price" /\ ~dry_run
    /\ env.responses = <<"rate_limited", "no_answer", "ok">>
    /\ net.uploads = 3 /\ net.upload_ret = "True"

\* C30: normalize_text_encoding is idempotent on every string built from the
\* characters of its replacement table: applying it to its own output
\* changes nothing.
C30_NormalizeIdempotent ==
    pc = "done" /\ op = "normalize_text_encoding" =>
        normalize_text_encoding(normalized) = normalized

=============================================================================
